---- MODULE Spec2Model ----
(***************************************************************************)
(* A model of the omar supervisor: the tmux sessions it owns, the files it *)
(* persists under ~/.omar, the two App instances built by run_dashboard    *)
(* (one behind the API mutex, one owned by the dashboard loop), the HTTP   *)
(* handlers and the dashboard event handlers.                              *)
(*                                                                         *)
(* Strings that the code inspects (session names, prefixes, project lines) *)
(* are sequences of one-character strings, so that starts_with,            *)
(* strip_prefix, trim and format! are computed as the code computes them.  *)
(***************************************************************************)
EXTENDS Integers, Sequences, FiniteSets, TLC

(***************************************************************************)
(* Program constants                                                       *)
(***************************************************************************)
MANAGER_SESSION ==
  <<"o", "m", "a", "-", "m", "a", "n", "a", "g", "e", "r">>

DASHBOARD_SESSION ==
  <<"o", "m", "a", "r", "-", "d", "a", "s", "h", "b", "o", "a", "r", "d">>

default_session_prefix ==
  <<"o", "m", "a", "r", "-", "a", "g", "e", "n", "t", "-">>

PM_PREFIX ==
  <<"p", "m", "-">>

default_idle_warning == 15

default_idle_critical == 300

WORKING_IDLE_LIMIT == 10

NAME_LIMIT == 1000

(***************************************************************************)
(* Bounds of the model                                                     *)
(***************************************************************************)
\* largest number of live sessions besides the two reserved ones
MaxLive == 3

\* largest number of lines the projects file may hold
MaxProjects == 2

\* largest number of characters typed into the project input
MaxInput == 2

\* largest number of deferred injections that are pending at a time
MaxPending == 2

(***************************************************************************)
(* Inputs                                                                  *)
(***************************************************************************)
\* dashboard.session_prefix: the default, and the empty prefix the
\* configuration allows
Prefixes ==
  {<<>>, default_session_prefix}

\* short names a request may carry
ShortNames ==
  {<<"w">>, <<"p", "m", "-", "a">>, <<"p", "m", "-", "b">>}

\* a session that some other program opened in the same tmux server
ForeignSession ==
  <<"v", "i", "m">>

\* pane texts: nothing special, a spinner line, a yes/no prompt, an error
Frames ==
  {"ok", "Thinking...", "Continue? [Y/n]", "build failed"}

\* seconds since the last activity: one value per interval the code tests
IdleValues ==
  {5, 12, 100, 301}

TaskTexts ==
  {"impl JWT"}

\* the project name a POST /api/projects carries
ProjectNames ==
  {<<"B">>}

\* the keys typed into the project input
InputChars ==
  {"A", " "}

(***************************************************************************)
(* Strings                                                                 *)
(***************************************************************************)
\* the characters the model uses, in ASCII order
Alphabet ==
  <<"\n", " ", "-", ".", "0", "1", "2", "3", "4", "5", "6", "7", "8", "9",
    "A", "B", "a", "b", "c", "d", "e", "g", "h", "i", "m", "n", "o", "p",
    "r", "s", "t", "v", "w">>

\* the place of each character in the alphabet
Ranks ==
  [c \in {Alphabet[i] : i \in 1..Len(Alphabet)} |->
     CHOOSE i \in 1..Len(Alphabet) : Alphabet[i] = c]

CharRank(c) ==
  Ranks[c]

Digits ==
  <<"0", "1", "2", "3", "4", "5", "6", "7", "8", "9">>

is_ascii_digit(c) ==
  \E i \in 1..10 : Digits[i] = c

is_whitespace(c) ==
  c \in {" ", "\n"}

starts_with(s, p) ==
  /\ Len(p) <= Len(s)
  /\ SubSeq(s, 1, Len(p)) = p

\* s.strip_prefix(p): None is <<>>, Some(rest) is <<rest>>
strip_prefix(s, p) ==
  IF starts_with(s, p) THEN <<SubSeq(s, Len(p) + 1, Len(s))>> ELSE <<>>

\* s.strip_prefix(p).unwrap_or(s)
strip_prefix_or(s, p) ==
  IF strip_prefix(s, p) = <<>> THEN s ELSE strip_prefix(s, p)[1]

RECURSIVE trim_start(_)
trim_start(s) ==
  IF s # <<>> /\ is_whitespace(s[1]) THEN trim_start(Tail(s)) ELSE s

RECURSIVE trim_end(_)
trim_end(s) ==
  IF s # <<>> /\ is_whitespace(s[Len(s)])
    THEN trim_end(SubSeq(s, 1, Len(s) - 1))
    ELSE s

trim(s) ==
  trim_end(trim_start(s))

RECURSIVE trim_start_digits(_)
trim_start_digits(s) ==
  IF s # <<>> /\ is_ascii_digit(s[1]) THEN trim_start_digits(Tail(s)) ELSE s

\* format!("{}", n) for a natural number
RECURSIVE to_string(_)
to_string(n) ==
  IF n < 10 THEN <<Digits[n + 1]>>
  ELSE to_string(n \div 10) \o <<Digits[(n % 10) + 1]>>

\* str::lines: split at "\n", no empty last line
RECURSIVE lines_from(_, _)
lines_from(s, cur) ==
  IF s = <<>> THEN (IF cur = <<>> THEN <<>> ELSE <<cur>>)
  ELSE IF s[1] = "\n" THEN <<cur>> \o lines_from(Tail(s), <<>>)
  ELSE lines_from(Tail(s), Append(cur, s[1]))

lines(s) ==
  lines_from(s, <<>>)

\* strcmp order, the order in which tmux lists its sessions
RECURSIVE LexLess(_, _)
LexLess(a, b) ==
  IF b = <<>> THEN FALSE
  ELSE IF a = <<>> THEN TRUE
  ELSE IF a[1] = b[1] THEN LexLess(Tail(a), Tail(b))
  ELSE CharRank(a[1]) < CharRank(b[1])

RECURSIVE SortNames(_)
SortNames(S) ==
  IF S = {} THEN <<>>
  ELSE LET m == CHOOSE x \in S : \A y \in S \ {x} : LexLess(x, y)
       IN  <<m>> \o SortNames(S \ {m})

Range(f) ==
  {f[x] : x \in DOMAIN f}

\* HashMap::retain on the keys, HashMap::remove, HashMap::insert
Restrict(f, K) ==
  [x \in (DOMAIN f) \cap K |-> f[x]]

MapRemove(f, k) ==
  [x \in (DOMAIN f) \ {k} |-> f[x]]

MapInsert(f, k, v) ==
  [x \in (DOMAIN f) \cup {k} |-> IF x = k THEN v ELSE f[x]]

EmptyMap ==
  [x \in {} |-> x]

\* Option
None ==
  <<>>

Some(x) ==
  <<x>>

(***************************************************************************)
(* api/handlers.rs: names                                                  *)
(***************************************************************************)
resolve_session_name_always(prefix, id) ==
  prefix \o id

resolve_session_name(prefix, id) ==
  IF prefix = <<>> \/ starts_with(id, prefix) THEN id ELSE prefix \o id

display_name(prefix, session_name) ==
  strip_prefix_or(session_name, prefix)

\* the test both spawn_agent and the tree builders apply to a session name
is_pm_name(prefix, name) ==
  starts_with(strip_prefix_or(name, prefix), PM_PREFIX)

(***************************************************************************)
(* projects.rs                                                             *)
(***************************************************************************)
RECURSIVE parse_lines(_, _)
parse_lines(ls, projects) ==
  IF ls = <<>> THEN projects
  ELSE
    LET trimmed == trim(ls[1])
        rest1 == IF trimmed # <<>> /\ is_ascii_digit(trimmed[1])
                   THEN Some(Tail(trimmed)) ELSE None
        rest2 == IF rest1 = None THEN None
                 ELSE strip_prefix(trim_start_digits(rest1[1]), <<".", " ">>)
        name == IF rest2 = None THEN <<>> ELSE trim(rest2[1])
    IN  parse_lines(Tail(ls),
          IF name # <<>>
            THEN Append(projects, [id |-> Len(projects) + 1, name |-> name])
            ELSE projects)

parse_projects(content) ==
  parse_lines(lines(content), <<>>)

RECURSIVE join_lines(_, _)
join_lines(projects, i) ==
  IF i > Len(projects) THEN <<>>
  ELSE (IF i > 1 THEN <<"\n">> ELSE <<>>)
       \o to_string(i) \o <<".", " ">> \o projects[i].name
       \o join_lines(projects, i + 1)

\* the content save_projects writes
save_projects(projects) ==
  LET content == join_lines(projects, 1)
  IN  IF content = <<>> THEN <<>> ELSE content \o <<"\n">>

\* projects::add_project after load_projects: push
push_project(projects, name) ==
  Append(projects, [id |-> Len(projects) + 1, name |-> name])

(***************************************************************************)
(* tmux/health.rs                                                          *)
(***************************************************************************)
\* default_error_patterns: error | failed | rate limit | exception
error_pattern(output) ==
  output \in {"build failed"}

\* the prompt shapes of waiting_pattern, here the [Y/n] one
waiting_pattern(output) ==
  output \in {"Continue? [Y/n]"}

\* the verbs, spinners and ellipsis of working_pattern
working_pattern(output) ==
  output \in {"Thinking..."}

\* HealthChecker::check on a session whose pane shows `output` and whose
\* last activity is `idle` seconds old
check(output, idle) ==
  IF error_pattern(output) THEN "Stuck"
  ELSE IF waiting_pattern(output) THEN "WaitingForInput"
  ELSE IF idle < WORKING_IDLE_LIMIT /\ working_pattern(output) THEN "Working"
  ELSE IF idle < default_idle_warning THEN "Working"
  ELSE IF idle > default_idle_critical THEN "Stuck"
  ELSE "Idle"

as_str(health) ==
  CASE health = "Working" -> "working"
    [] health = "WaitingForInput" -> "waiting"
    [] health = "Idle" -> "idle"
    [] health = "Stuck" -> "stuck"

(***************************************************************************)
(* State                                                                   *)
(***************************************************************************)
VARIABLES
  session_prefix,  \* config.dashboard.session_prefix
  tmux,            \* live sessions of the tmux server: name -> session
  parents,         \* ~/.omar/agent_parents.json: child -> parent
  worker_tasks,    \* ~/.omar/worker_tasks.json: session -> task
  projects_file,   \* ~/.omar/tasks.md, its characters
  memory_file,     \* ~/.omar/memory.md: <<>> when missing or empty
  app,             \* the two App instances: "api" (mutex) and "dash" (loop)
  dash_pc,         \* run_dashboard: "start", "loop" or "exited"
  inject,          \* the deferred task injections that are still to run
  adding,          \* projects::add_project calls between load and save
  resp,            \* the response the step returned, if an HTTP request
  em_log           \* what the refresh of the step found, issued and reached

vars ==
  <<session_prefix, tmux, parents, worker_tasks, projects_file, memory_file,
    app, dash_pc, inject, adding, resp, em_log>>

AppIds ==
  {"api", "dash"}

\* the threads that run handlers: a worker of the tokio runtime for an
\* HTTP request, and the task of run_dashboard
Threads ==
  {"api", "dash"}

\* no call of projects::add_project is under way
NoAdds ==
  [t \in Threads |-> <<>>]

\* config.rs default_command
default_command ==
  <<"claude">>

\* a session as tmux new-session -d leaves it; command is the command line
\* the session was started with
NewSession ==
  [attached |-> FALSE, frame |-> "ok", idle |-> 5, recv |-> <<>>,
   command |-> default_command]

\* A command line is a sequence of pieces: a space, a single quote, a
\* backslash, a letter outside ASCII, or a run of ASCII letters, digits and
\* - _ / . : = such as "docker" or "--rm".
\* the test of shell_escape: c.is_alphanumeric() or one of - _ / . : =
escape_keeps(c) ==
  c \notin {" ", "'", "\\"}

\* s.replace('\'', "'\\''")
RECURSIVE replace_quotes(_)
replace_quotes(s) ==
  IF s = <<>> THEN <<>>
  ELSE (IF Head(s) = "'" THEN <<"'", "\\", "'", "'">> ELSE <<Head(s)>>)
       \o replace_quotes(Tail(s))

\* shell_escape
shell_escape(s) ==
  IF \A k \in 1..Len(s) : escape_keeps(s[k])
    THEN s
    ELSE <<"'">> \o replace_quotes(s) \o <<"'">>

\* parts.join(" ")
RECURSIVE join(_)
join(parts) ==
  IF parts = <<>> THEN <<>>
  ELSE IF Len(parts) = 1 THEN parts[1]
  ELSE parts[1] \o <<" ">> \o join(Tail(parts))

\* DockerProvider::docker_args, of which the model keeps the container
\* name and the command: run --rm --name omar-sandbox-<name> sh -c <command>
docker_args(session_name, command) ==
  <<<<"run">>, <<"--rm">>, <<"--name">>, <<"omar-sandbox-">> \o session_name,
    <<"sh">>, <<"-c">>, command>>

\* DockerProvider::wrap_command and NoopProvider::wrap_command
wrap_command(enabled, session_name, command) ==
  IF enabled
    THEN LET args == docker_args(session_name, command)
         IN  join(<<<<"docker">>>>
                  \o [k \in 1..Len(args) |-> shell_escape(args[k])])
    ELSE command

\* TmuxClient::has_session: a tmux error is Ok(false); the Err of a tmux
\* binary that cannot be executed is left out
has_session(tm, name) ==
  name \in DOMAIN tm

\* TmuxClient::list_all_sessions
list_all_sessions(tm) ==
  SortNames(DOMAIN tm)

\* TmuxClient::list_sessions: the lines that start with the prefix
list_sessions(tm, prefix) ==
  SortNames({n \in DOMAIN tm : starts_with(n, prefix)})

\* what send-keys delivers, in the order of delivery: a literal text
\* (send_keys_literal), made of a system prompt, a short name and a task, or
\* a key (send_keys)
Literal(system, name, task) ==
  [kind |-> "literal", text |-> system, name |-> name, task |-> task]

Key(k) ==
  [kind |-> "key", text |-> k, name |-> <<>>, task |-> ""]

\* send-keys to a live session
send_keys(tm, target, what) ==
  [tm EXCEPT ![target].recv = Append(@, what)]

load_projects(pf) ==
  parse_projects(pf)

\* the sessions refresh keeps as agents, for a prefix
IsAgentSession(prefix, name) ==
  /\ name # MANAGER_SESSION
  /\ name # DASHBOARD_SESSION
  /\ (prefix = <<>> \/ starts_with(name, prefix))

AgentNames(agents) ==
  {agents[k].name : k \in 1..Len(agents)}

(***************************************************************************)
(* app.rs: the chain-of-command tree                                       *)
(***************************************************************************)
EA_LABEL ==
  <<"E", "x", "e", "c", "u", "t", "i", "v", "e", " ",
    "A", "s", "s", "i", "s", "t", "a", "n", "t">>

PM_LABEL ==
  <<"P", "r", "o", "j", "e", "c", "t", " ",
    "M", "a", "n", "a", "g", "e", "r", ":", " ">>

UNASSIGNED_LABEL ==
  <<"U", "n", "a", "s", "s", "i", "g", "n", "e", "d">>

\* the PM / non-PM partition both builders start with
pms_of(agents, prefix) ==
  LET Test(a) == is_pm_name(prefix, a.name) IN SelectSeq(agents, Test)

non_pms_of(agents, prefix) ==
  LET Test(a) == ~is_pm_name(prefix, a.name) IN SelectSeq(agents, Test)

has_pm_parent_unchecked(a, pms, agent_parents) ==
  a.name \in DOMAIN agent_parents

\* agent_parents.get(name) names one of the PMs
has_pm_parent(a, pms, agent_parents) ==
  /\ a.name \in DOMAIN agent_parents
  /\ \E k \in 1..Len(pms) : pms[k].name = agent_parents[a.name]

pm_children_of_all(pm, non_pms, pms, agent_parents) ==
  LET Test(a) == has_pm_parent(a, pms, agent_parents)
  IN  SelectSeq(non_pms, Test)

pm_children_of(pm, non_pms, pms, agent_parents) ==
  LET Test(a) == /\ has_pm_parent(a, pms, agent_parents)
                 /\ agent_parents[a.name] = pm.name
  IN  SelectSeq(non_pms, Test)

orphans_of(non_pms, pms, agent_parents) ==
  LET Test(a) == ~has_pm_parent(a, pms, agent_parents)
  IN  SelectSeq(non_pms, Test)

worker_nodes_short_ancestry(kids, prefix, anc) ==
  [k \in 1..Len(kids) |->
     [name |-> strip_prefix_or(kids[k].name, prefix),
      session_name |-> kids[k].name,
      health |-> kids[k].health,
      depth |-> 2,
      is_last_sibling |-> (k = Len(kids)),
      ancestor_is_last |-> <<TRUE>>]]

worker_nodes(kids, prefix, anc) ==
  [k \in 1..Len(kids) |->
     [name |-> strip_prefix_or(kids[k].name, prefix),
      session_name |-> kids[k].name,
      health |-> kids[k].health,
      depth |-> 2,
      is_last_sibling |-> (k = Len(kids)),
      ancestor_is_last |-> anc]]

\* the PM nodes of build_tree from the PM at pm_idx on, each followed by
\* its workers
RECURSIVE pm_nodes_last_pm(_, _, _, _, _, _)
pm_nodes_last_pm(pm_idx, pms, non_pms, orphans, agent_parents, prefix) ==
  IF pm_idx > Len(pms) THEN <<>>
  ELSE
    LET pm == pms[pm_idx]
        is_last == pm_idx = Len(pms)
        short == strip_prefix_or(pm.name, prefix)
        pm_display == IF strip_prefix(short, PM_PREFIX) # None
                        THEN PM_LABEL \o strip_prefix(short, PM_PREFIX)[1]
                        ELSE short
        kids == pm_children_of(pm, non_pms, pms, agent_parents)
    IN  <<[name |-> pm_display,
           session_name |-> pm.name,
           health |-> pm.health,
           depth |-> 1,
           is_last_sibling |-> is_last,
           ancestor_is_last |-> <<TRUE>>]>>
        \o worker_nodes(kids, prefix, <<TRUE, is_last>>)
        \o pm_nodes_last_pm(pm_idx + 1, pms, non_pms, orphans, agent_parents, prefix)

RECURSIVE pm_nodes(_, _, _, _, _, _)
pm_nodes(pm_idx, pms, non_pms, orphans, agent_parents, prefix) ==
  IF pm_idx > Len(pms) THEN <<>>
  ELSE
    LET pm == pms[pm_idx]
        is_last == pm_idx = Len(pms) /\ orphans = <<>>
        short == strip_prefix_or(pm.name, prefix)
        pm_display == IF strip_prefix(short, PM_PREFIX) # None
                        THEN PM_LABEL \o strip_prefix(short, PM_PREFIX)[1]
                        ELSE short
        kids == pm_children_of(pm, non_pms, pms, agent_parents)
    IN  <<[name |-> pm_display,
           session_name |-> pm.name,
           health |-> pm.health,
           depth |-> 1,
           is_last_sibling |-> is_last,
           ancestor_is_last |-> <<TRUE>>]>>
        \o worker_nodes(kids, prefix, <<TRUE, is_last>>)
        \o pm_nodes(pm_idx + 1, pms, non_pms, orphans, agent_parents, prefix)

build_tree(agents, manager, agent_parents, prefix) ==
  LET ea_health == IF manager = None THEN "Idle" ELSE manager[1].health
      pms == pms_of(agents, prefix)
      non_pms == non_pms_of(agents, prefix)
      orphans == orphans_of(non_pms, pms, agent_parents)
  IN  <<[name |-> EA_LABEL,
         session_name |-> MANAGER_SESSION,
         health |-> ea_health,
         depth |-> 0,
         is_last_sibling |-> TRUE,
         ancestor_is_last |-> <<>>]>>
      \o pm_nodes(1, pms, non_pms, orphans, agent_parents, prefix)
      \o (IF orphans = <<>> THEN <<>>
          ELSE <<[name |-> UNASSIGNED_LABEL,
                  session_name |-> <<>>,
                  health |-> "Idle",
                  depth |-> 1,
                  is_last_sibling |-> TRUE,
                  ancestor_is_last |-> <<TRUE>>]>>
               \o worker_nodes(orphans, prefix, <<TRUE, TRUE>>))

(***************************************************************************)
(* The world a handler works on: the shared tmux server and files, and the *)
(* App instances.  A handler is a function from world to world; an action  *)
(* commits the world its handler ends in.                                  *)
(***************************************************************************)
\* no ensure_manager call in the step
NoLog ==
  [app |-> "none", had_manager |-> FALSE, had_memory |-> FALSE,
   cmds |-> <<>>, ok |-> TRUE, refreshed |-> FALSE, cleanup |-> None]

World ==
  [tm |-> tmux, pa |-> parents, wt |-> worker_tasks, pf |-> projects_file,
   mf |-> memory_file, ap |-> app, el |-> NoLog]

Commit(W) ==
  /\ tmux' = W.tm
  /\ parents' = W.pa
  /\ worker_tasks' = W.wt
  /\ projects_file' = W.pf
  /\ memory_file' = W.mf
  /\ app' = W.ap
  /\ em_log' = W.el

(***************************************************************************)
(* memory.rs                                                               *)
(***************************************************************************)
save_agent_parent(W, child, parent) ==
  [W EXCEPT !.pa = MapInsert(@, child, parent)]

\* a removal that writes the map back as it was loaded
remove_agent_parent_kept(W, child) ==
  W

remove_agent_parent(W, child) ==
  [W EXCEPT !.pa = MapRemove(@, child)]

save_worker_task_short(W, session, task) ==
  [W EXCEPT !.wt = MapInsert(@, display_name(session_prefix, session), task)]

save_worker_task(W, session, task) ==
  [W EXCEPT !.wt = MapInsert(@, session, task)]

load_memory(W) ==
  W.mf

\* the text write_memory renders: its heading and its "## Manager" section.
\* The project and worker sections are left out: the program reads the
\* file back only to test it for emptiness and to forward it to the manager
snapshot(manager) ==
  <<"# OMAR State",
    IF manager = None THEN "- Status: Not running" ELSE "- Status: Running">>

write_memory(W, agents, manager) ==
  LET active_sessions == AgentNames(agents)
  IN  [W EXCEPT !.wt = Restrict(@, active_sessions),
                !.pa = Restrict(@, active_sessions),
                !.mf = snapshot(manager)]

(***************************************************************************)
(* app.rs: App                                                             *)
(***************************************************************************)
\* App::new with the default configuration, whose sandbox is disabled;
\* sandbox is is_enabled() of the provider create_provider returns
AppNew(pf) ==
  [agents |-> <<>>,
   manager |-> None,
   command_tree |-> <<>>,
   selected |-> 0,
   manager_selected |-> TRUE,
   interactive_mode |-> FALSE,
   should_quit |-> FALSE,
   show_help |-> FALSE,
   show_confirm_kill |-> FALSE,
   status_message |-> None,
   projects |-> load_projects(pf),
   project_input_mode |-> FALSE,
   project_input |-> <<>>,
   agent_parents |-> EmptyMap,
   sandbox |-> FALSE,
   default_command |-> default_command,
   frames |-> EmptyMap]

\* the AgentInfo refresh builds for a listed session: the Session, the
\* HealthState and, of its HealthInfo, the last line of the capture (the
\* pane texts of the model are one line long)
agent_info(tm, name) ==
  [name |-> name,
   attached |-> tm[name].attached,
   health |-> check(tm[name].frame, tm[name].idle),
   last_output |-> tm[name].frame]

\* the tmux calls that may fail inside a refresh, and "none"
FailPoints ==
  {"none", "new_session", "prompt", "prompt_enter", "memory",
   "memory_enter", "list_all_sessions"}

\* what ensure_manager does, in order, once it found no manager session:
\* new_session, send_keys_literal(MANAGER_SYSTEM_PROMPT), send_keys(C-m),
\* then send_keys_literal(header + memory), send_keys(C-m) when load_memory
\* is not empty, then write_memory
em_steps_enter_first(mem) ==
  <<"new_session", "prompt_enter", "prompt">>
  \o (IF mem # <<>> THEN <<"memory", "memory_enter">> ELSE <<>>)
  \o <<"write_memory">>

em_steps(mem) ==
  <<"new_session", "prompt", "prompt_enter">>
  \o (IF mem # <<>> THEN <<"memory", "memory_enter">> ELSE <<>>)
  \o <<"write_memory">>

\* the keystrokes a step of ensure_manager sends to the manager session
em_keys(step) ==
  CASE step = "prompt" -> Literal("MANAGER_SYSTEM_PROMPT", <<>>, "")
    [] step = "memory" -> Literal("memory", <<>>, "")
    [] OTHER -> Key("C-m")

em_step(W, i, step) ==
  CASE step = "new_session" ->
         [W EXCEPT !.tm = MapInsert(@, MANAGER_SESSION,
                                    [NewSession EXCEPT
                                       !.command =
                                         W.ap[i].default_command])]
    [] step = "write_memory" -> write_memory(W, W.ap[i].agents, None)
    [] OTHER -> [W EXCEPT !.tm = send_keys(@, MANAGER_SESSION, em_keys(step))]

RECURSIVE em_run(_, _, _, _)
em_run(W, i, steps, k) ==
  IF k > Len(steps) THEN W ELSE em_run(em_step(W, i, steps[k]), i, steps, k + 1)

\* the steps ensure_manager completes when the call named f fails
em_done(steps, f) ==
  IF \E k \in 1..Len(steps) : steps[k] = f
    THEN SubSeq(steps, 1, (CHOOSE k \in 1..Len(steps) : steps[k] = f) - 1)
    ELSE steps

\* App::ensure_manager of instance i; f is the call that fails, if reached
ensure_manager(W, i, f) ==
  LET had == has_session(W.tm, MANAGER_SESSION)
      mem == load_memory(W)
      steps == em_steps(mem)
      done == em_done(steps, f)
      log(cmds, ok) == [app |-> i, had_manager |-> had,
                        had_memory |-> (mem # <<>>), cmds |-> cmds, ok |-> ok,
                        refreshed |-> FALSE, cleanup |-> W.el.cleanup]
  IN  IF had
        THEN [ok |-> TRUE, W |-> [W EXCEPT !.el = log(<<>>, TRUE)]]
      ELSE [ok |-> done = steps,
            W |-> [em_run(W, i, done, 1) EXCEPT !.el = log(done, done = steps)]]

\* the liveness engine on an observation of the sessions `names`: the
\* captured tail of each replaces the one stored for it
RECURSIVE record_frames(_, _, _)
record_frames(frames, tm, names) ==
  IF names = <<>> THEN frames
  ELSE record_frames(MapInsert(frames, Head(names), tm[Head(names)].frame),
                     tm, Tail(names))

\* HealthChecker::retain_sessions: the stored tails of the sessions in
\* `active` stay, the others are purged
retain_sessions(frames, active) ==
  Restrict(frames, active)

\* the end of the classification in App::refresh: the names of the agents
\* and of the manager are the active sessions handed to retain_sessions
purge_frames_never(frames, agents, manager) ==
  frames

purge_frames(frames, agents, manager) ==
  retain_sessions(frames,
                  AgentNames(agents)
                    \cup (IF manager = None THEN {} ELSE {manager[1].name}))

\* App::refresh of instance i
refresh_past_error(W0, i, f) ==
  LET E == ensure_manager(W0, i, f)
      W == E.W
      prefix == session_prefix
      names == list_all_sessions(W.tm)
      IsOther(n) == IsAgentSession(prefix, n)
      other_sessions == SelectSeq(names, IsOther)
      manager == IF has_session(W.tm, MANAGER_SESSION)
                   THEN Some(agent_info(W.tm, MANAGER_SESSION))
                   ELSE None
      NotAttached(n) == ~W.tm[n].attached
      filtered == SelectSeq(other_sessions, NotAttached)
      agents == [k \in 1..Len(filtered) |-> agent_info(W.tm, filtered[k])]
      selected == IF agents # <<>> /\ W.ap[i].selected >= Len(agents)
                    THEN Len(agents) - 1
                    ELSE W.ap[i].selected
      agent_parents == W.pa
      observed == (IF manager = None THEN <<>> ELSE <<MANAGER_SESSION>>)
                  \o filtered
      frames == purge_frames(record_frames(W.ap[i].frames, W.tm, observed),
                             agents, manager)
  IN  [ok |-> E.ok /\ f # "list_all_sessions",
       W |-> [W EXCEPT !.el.refreshed = E.ok /\ f # "list_all_sessions",
                            !.ap[i] =
                     [@ EXCEPT !.manager = manager,
                               !.agents = agents,
                               !.frames = frames,
                               !.projects = load_projects(W.pf),
                               !.selected = selected,
                               !.agent_parents = agent_parents,
                               !.command_tree =
                                 build_tree(agents, manager, agent_parents,
                                            prefix)]]]

refresh(W0, i, f) ==
  LET E == ensure_manager(W0, i, f)
      W == E.W
      prefix == session_prefix
      names == list_all_sessions(W.tm)
      IsOther(n) == IsAgentSession(prefix, n)
      other_sessions == SelectSeq(names, IsOther)
      manager == IF has_session(W.tm, MANAGER_SESSION)
                   THEN Some(agent_info(W.tm, MANAGER_SESSION))
                   ELSE None
      NotAttached(n) == ~W.tm[n].attached
      filtered == SelectSeq(other_sessions, NotAttached)
      agents == [k \in 1..Len(filtered) |-> agent_info(W.tm, filtered[k])]
      selected == IF agents # <<>> /\ W.ap[i].selected >= Len(agents)
                    THEN Len(agents) - 1
                    ELSE W.ap[i].selected
      agent_parents == W.pa
      observed == (IF manager = None THEN <<>> ELSE <<MANAGER_SESSION>>)
                  \o filtered
      frames == purge_frames(record_frames(W.ap[i].frames, W.tm, observed),
                             agents, manager)
  IN  IF ~E.ok \/ f = "list_all_sessions"
        THEN [ok |-> FALSE, W |-> W]
      ELSE [ok |-> TRUE,
            W |-> [W EXCEPT !.el.refreshed = TRUE,
                            !.ap[i] =
                     [@ EXCEPT !.manager = manager,
                               !.agents = agents,
                               !.frames = frames,
                               !.projects = load_projects(W.pf),
                               !.selected = selected,
                               !.agent_parents = agent_parents,
                               !.command_tree =
                                 build_tree(agents, manager, agent_parents,
                                            prefix)]]]

\* App::selected_agent
selected_agent(a) ==
  IF a.manager_selected THEN a.manager
  ELSE IF a.selected < Len(a.agents) THEN Some(a.agents[a.selected + 1])
  ELSE None

\* the loop `for i in 1..1000`: the first i from k on whose name is free,
\* 0 when the loop ends without one. Of the numbers k..k+n at least one is
\* free when n names exist, so the loop never looks past k+n
first_free_inclusive(existing, prefix, k) ==
  LET last == IF k + Cardinality(existing) < NAME_LIMIT
                THEN k + Cardinality(existing)
                ELSE NAME_LIMIT
      free == {i \in k..last : (prefix \o to_string(i)) \notin existing}
  IN  IF free = {} THEN 0
      ELSE CHOOSE i \in free : \A h \in free : i <= h

first_free(existing, prefix, k) ==
  LET last == IF k + Cardinality(existing) < NAME_LIMIT - 1
                THEN k + Cardinality(existing)
                ELSE NAME_LIMIT - 1
      free == {i \in k..last : (prefix \o to_string(i)) \notin existing}
  IN  IF free = {} THEN 0
      ELSE CHOOSE i \in free : \A h \in free : i <= h

\* App::generate_agent_name; `now` is the clock of the fallback
generate_agent_name(a, prefix, now) ==
  LET k == first_free(AgentNames(a.agents), prefix, 1)
  IN  IF k # 0 THEN prefix \o to_string(k) ELSE prefix \o to_string(now)

set_status(W, i, msg) ==
  [W EXCEPT !.ap[i].status_message = Some(msg)]

\* App::kill_selected of the dashboard; kill_fails: tmux kill-session
\* reports a failure, f: the call that fails in the refresh that follows
kill_selected(W, kill_fails, f) ==
  LET i == "dash"
      sel == selected_agent(W.ap[i])
      name == sel[1].name
      W1 == remove_agent_parent(
              [W EXCEPT !.tm = MapRemove(@, name),
                        !.el.cleanup = Some(name),
                        !.ap[i].status_message = Some("Killed agent")],
              name)
      R == refresh(W1, i, f)
      W2 == write_memory(R.W, R.W.ap[i].agents, R.W.ap[i].manager)
  IN  IF sel = None
        THEN [ok |-> TRUE, W |-> [W EXCEPT !.ap[i].show_confirm_kill = FALSE]]
      ELSE IF sel[1].attached
        THEN [ok |-> TRUE,
              W |-> [W EXCEPT
                       !.ap[i].status_message =
                         Some("Cannot kill attached session"),
                       !.ap[i].show_confirm_kill = FALSE]]
      ELSE IF name = MANAGER_SESSION
        THEN [ok |-> TRUE,
              W |-> [W EXCEPT
                       !.ap[i].status_message =
                         Some("Cannot kill manager with 'd'"),
                       !.ap[i].show_confirm_kill = FALSE]]
      ELSE IF kill_fails \/ ~has_session(W.tm, name)
        THEN [ok |-> FALSE, W |-> W]
      ELSE IF ~R.ok
        THEN [ok |-> FALSE, W |-> R.W]
      ELSE [ok |-> TRUE, W |-> [W2 EXCEPT !.ap[i].show_confirm_kill = FALSE]]

(***************************************************************************)
(* Requests                                                                *)
(***************************************************************************)
\* the ids a path may carry for a set of short names: the short names,
\* the full names and the names of sessions the supervisor does not own
Ids(names) ==
  names \cup {session_prefix \o n : n \in names}
    \cup {MANAGER_SESSION, DASHBOARD_SESSION, ForeignSession}

\* sessions that are neither the manager's nor the dashboard's
LiveCount(tm) ==
  Cardinality(DOMAIN tm \ {MANAGER_SESSION, DASHBOARD_SESSION})

Serving ==
  dash_pc # "exited"

Response(op, status) ==
  [op |-> op, status |-> status]

\* the step was not an HTTP request
NoResponse ==
  Response("none", 0)

(***************************************************************************)
(* api/handlers.rs                                                         *)
(***************************************************************************)
\* a step that is no HTTP request and calls no ensure_manager
Quiet ==
  /\ resp' = NoResponse
  /\ em_log' = NoLog

\* GET /api/agents
list_agents(f) ==
  /\ Serving
  /\ LET R == refresh(World, "api", f)
     IN  /\ Commit(R.W)
         /\ resp' = Response("list", IF R.ok THEN 200 ELSE 500)
  /\ UNCHANGED <<session_prefix, adding, dash_pc, inject>>

\* the parent spawn_agent records for a new session, if any
spawn_parent(W, req, name, list_fails) ==
  LET prefix == session_prefix
      is_pm == req.role = Some("project-manager")
      sessions == list_sessions(W.tm, prefix)
      IsPm(n) == is_pm_name(prefix, n)
      pm_sessions == SelectSeq(sessions, IsPm)
  IN  IF req.parent # None
        THEN Some(resolve_session_name(prefix, req.parent[1]))
      ELSE IF ~is_pm /\ ~list_fails /\ Len(pm_sessions) = 1
        THEN Some(pm_sessions[1])
      ELSE None

\* the text the deferred injection of spawn_agent sends
full_prompt(req, name) ==
  IF req.role = Some("project-manager")
    THEN Literal("PM_SYSTEM_PROMPT", display_name(session_prefix, name),
                 req.task[1])
    ELSE Literal("", <<>>, req.task[1])

\* the status spawn_agent answers with: 409 for a name that is taken, 500
\* when tmux new-session fails
spawn_status_no_conflict(tm, name, new_fails) ==
  IF new_fails THEN 500 ELSE 200

spawn_status(tm, name, new_fails) ==
  IF has_session(tm, name) THEN 409
  ELSE IF new_fails THEN 500
  ELSE 200

\* req.command.unwrap_or_else(default_command): a body without the key
\* deserializes to None
base_command(a, req) ==
  IF "command" \in DOMAIN req /\ req.command # None
    THEN req.command[1]
    ELSE a.default_command

\* POST /api/agents; new_fails: tmux new-session fails, list_fails: tmux
\* list-sessions fails, now: the clock
spawn_agent(req, new_fails, list_fails, now) ==
  LET prefix == session_prefix
      name == IF req.name # None
                THEN resolve_session_name(prefix, req.name[1])
                ELSE generate_agent_name(app["api"], prefix, now)
      W1 == [World EXCEPT
               !.tm = MapInsert(@, name,
                                [NewSession EXCEPT
                                   !.command = base_command(app["api"], req)])]
      par == spawn_parent(W1, req, name, list_fails)
      W2 == IF par = None THEN W1 ELSE save_agent_parent(W1, name, par[1])
      W3 == IF req.task = None THEN W2
            ELSE save_worker_task(W2, name, req.task[1])
      status == spawn_status(tmux, name, new_fails)
  IN  /\ Serving
      /\ IF status # 200
           THEN /\ Commit(World)
                /\ UNCHANGED inject
         ELSE /\ LiveCount(tmux) < MaxLive
              /\ req.task # None => Len(inject) < MaxPending
              /\ Commit(W3)
              /\ inject' = IF req.task = None THEN inject
                           ELSE Append(inject,
                                       [session |-> name, stage |-> "text",
                                        text |-> full_prompt(req, name)])
      /\ resp' = Response("spawn", status)
      /\ UNCHANGED <<session_prefix, adding, dash_pc>>

\* the status kill_agent answers with: 403 for the manager, 404 for a
\* session that does not exist, 500 when tmux kill-session fails
kill_status_unguarded(tm, id, session_name, kill_fails) ==
  IF ~has_session(tm, session_name) THEN 404
  ELSE IF kill_fails THEN 500
  ELSE 200

kill_status(tm, id, session_name, kill_fails) ==
  IF session_name = MANAGER_SESSION \/ id = MANAGER_SESSION THEN 403
  ELSE IF ~has_session(tm, session_name) THEN 404
  ELSE IF kill_fails THEN 500
  ELSE 200

\* DELETE /api/agents/:id; kill_fails: tmux kill-session fails
kill_agent(id, kill_fails) ==
  LET prefix == session_prefix
      session_name == resolve_session_name(prefix, id)
      W1 == remove_agent_parent(
              [World EXCEPT !.tm = MapRemove(@, session_name)], session_name)
      status == kill_status(tmux, id, session_name, kill_fails)
  IN  /\ Serving
      /\ IF status = 200 THEN Commit(W1) ELSE Commit(World)
      /\ resp' = Response("kill", status)
      /\ UNCHANGED <<session_prefix, adding, dash_pc, inject>>

\* the status get_agent answers with: the agent is looked for in the agent
\* list of the API's App by its resolved name, and the manager record by
\* the id as given
get_status(a, id, full_id) ==
  IF \E i \in 1..Len(a.agents) : a.agents[i].name = full_id THEN 200
  ELSE IF a.manager # None /\ a.manager[1].name = id THEN 200
  ELSE 404

\* GET /api/agents/:id; a capture_pane that fails gives an empty tail
get_agent(id) ==
  LET prefix == session_prefix
      full_id == resolve_session_name(prefix, id)
  IN  /\ Serving
      /\ resp' = Response("get", get_status(app["api"], id, full_id))
      /\ em_log' = NoLog
      /\ UNCHANGED <<session_prefix, tmux, parents, worker_tasks,
                     projects_file, memory_file, app, dash_pc, inject,
                     adding>>

\* POST /api/projects, up to the load_projects of projects::add_project.
\* The handler takes no State: it runs on a worker thread of the runtime
\* without the mutex of the API's App
api_add_project_load(name) ==
  /\ Serving
  /\ adding["api"] = None
  /\ Len(load_projects(projects_file)) < MaxProjects
  /\ adding' = [adding EXCEPT !["api"] =
                  Some([name |-> name,
                        projects |-> load_projects(projects_file)])]
  /\ Quiet
  /\ UNCHANGED <<session_prefix, tmux, parents, worker_tasks, projects_file,
                 memory_file, app, dash_pc, inject>>

\* POST /api/projects, from the push to the response: save_projects does
\* not fail here
api_add_project_save ==
  /\ adding["api"] # None
  /\ LET op == adding["api"][1]
     IN  projects_file' = save_projects(push_project(op.projects, op.name))
  /\ adding' = [adding EXCEPT !["api"] = None]
  /\ resp' = Response("add_project", 200)
  /\ em_log' = NoLog
  /\ UNCHANGED <<session_prefix, tmux, parents, worker_tasks, memory_file,
                 app, dash_pc, inject>>

\* a sequence without its k-th element
RemoveAt(q, k) ==
  SubSeq(q, 1, k - 1) \o SubSeq(q, k + 1, Len(q))

\* the deferred injection k: after the sleep, send_keys_literal, whose
\* error is dropped
inject_text(k) ==
  /\ k \in 1..Len(inject)
  /\ inject[k].stage = "text"
  /\ tmux' = IF has_session(tmux, inject[k].session)
               THEN send_keys(tmux, inject[k].session, inject[k].text)
               ELSE tmux
  /\ inject' = [inject EXCEPT ![k].stage = "enter"]
  /\ Quiet
  /\ UNCHANGED <<session_prefix, adding, parents, worker_tasks, projects_file,
                 memory_file, app, dash_pc>>

\* the deferred injection k: after the second sleep, send_keys("Enter"),
\* and the task ends
inject_enter(k) ==
  /\ k \in 1..Len(inject)
  /\ inject[k].stage = "enter"
  /\ tmux' = IF has_session(tmux, inject[k].session)
               THEN send_keys(tmux, inject[k].session, Key("Enter"))
               ELSE tmux
  /\ inject' = RemoveAt(inject, k)
  /\ Quiet
  /\ UNCHANGED <<session_prefix, adding, parents, worker_tasks, projects_file,
                 memory_file, app, dash_pc>>

(***************************************************************************)
(* main.rs: run_dashboard                                                  *)
(***************************************************************************)
\* the initial refresh, before the event loop
dash_start(f) ==
  /\ dash_pc = "start"
  /\ LET R == refresh(World, "dash", f)
     IN  Commit(IF R.ok THEN R.W ELSE set_status(R.W, "dash", "Error"))
  /\ dash_pc' = "loop"
  /\ resp' = NoResponse
  /\ UNCHANGED <<session_prefix, adding, inject>>

\* AppEvent::Tick
dash_tick(f) ==
  /\ dash_pc = "loop"
  /\ LET W == [World EXCEPT !.ap["dash"].status_message = None]
         R == refresh(W, "dash", f)
     IN  Commit(IF R.ok THEN R.W ELSE set_status(R.W, "dash", "Error"))
  /\ resp' = NoResponse
  /\ UNCHANGED <<session_prefix, adding, dash_pc, inject>>

\* a key reaches the normal key handling of the loop
NormalMode ==
  /\ dash_pc = "loop"
  /\ ~app["dash"].project_input_mode
  /\ ~app["dash"].interactive_mode
  /\ ~app["dash"].show_confirm_kill
  /\ ~app["dash"].show_help

next_no_wrap(a) ==
  IF a.manager_selected
    THEN IF a.agents # <<>>
           THEN [a EXCEPT !.manager_selected = FALSE, !.selected = 0]
           ELSE a
  ELSE IF a.agents # <<>>
    THEN IF a.selected + 1 >= Len(a.agents)
           THEN a
           ELSE [a EXCEPT !.selected = @ + 1]
  ELSE [a EXCEPT !.manager_selected = TRUE]

\* App::next
next(a) ==
  IF a.manager_selected
    THEN IF a.agents # <<>>
           THEN [a EXCEPT !.manager_selected = FALSE, !.selected = 0]
           ELSE a
  ELSE IF a.agents # <<>>
    THEN IF a.selected + 1 >= Len(a.agents)
           THEN [a EXCEPT !.manager_selected = TRUE]
           ELSE [a EXCEPT !.selected = @ + 1]
  ELSE [a EXCEPT !.manager_selected = TRUE]

\* App::previous
previous(a) ==
  IF a.manager_selected
    THEN IF a.agents # <<>>
           THEN [a EXCEPT !.manager_selected = FALSE,
                          !.selected = Len(a.agents) - 1]
           ELSE a
  ELSE IF a.agents # <<>>
    THEN IF a.selected = 0
           THEN [a EXCEPT !.manager_selected = TRUE]
           ELSE [a EXCEPT !.selected = @ - 1]
  ELSE [a EXCEPT !.manager_selected = TRUE]

\* 'j' / Down
key_next ==
  /\ NormalMode
  /\ app' = [app EXCEPT !["dash"] = next(@)]
  /\ Quiet
  /\ UNCHANGED <<session_prefix, adding, tmux, parents, worker_tasks, projects_file,
                 memory_file, dash_pc, inject>>

\* 'k' / Up
key_previous ==
  /\ NormalMode
  /\ app' = [app EXCEPT !["dash"] = previous(@)]
  /\ Quiet
  /\ UNCHANGED <<session_prefix, adding, tmux, parents, worker_tasks, projects_file,
                 memory_file, dash_pc, inject>>

\* 'd'
key_d ==
  /\ NormalMode
  /\ app' = IF selected_agent(app["dash"]) # None
              THEN [app EXCEPT !["dash"].show_confirm_kill = TRUE]
              ELSE app
  /\ Quiet
  /\ UNCHANGED <<session_prefix, adding, tmux, parents, worker_tasks, projects_file,
                 memory_file, dash_pc, inject>>

\* the keys of the confirmation dialog come after project input and
\* interactive mode in the dispatch
ConfirmMode ==
  /\ dash_pc = "loop"
  /\ ~app["dash"].project_input_mode
  /\ ~app["dash"].interactive_mode
  /\ app["dash"].show_confirm_kill

\* 'y' / 'Y' in the confirmation dialog
confirm_yes(kill_fails, f) ==
  /\ ConfirmMode
  /\ LET R == kill_selected(World, kill_fails, f)
     IN  Commit(IF R.ok THEN R.W ELSE set_status(R.W, "dash", "Error"))
  /\ resp' = NoResponse
  /\ UNCHANGED <<session_prefix, adding, dash_pc, inject>>

\* any other key in the confirmation dialog
confirm_other ==
  /\ ConfirmMode
  /\ app' = [app EXCEPT !["dash"].show_confirm_kill = FALSE]
  /\ Quiet
  /\ UNCHANGED <<session_prefix, adding, tmux, parents, worker_tasks, projects_file,
                 memory_file, dash_pc, inject>>

\* 'p'
key_p ==
  /\ NormalMode
  /\ app' = [app EXCEPT !["dash"].project_input_mode = TRUE]
  /\ Quiet
  /\ UNCHANGED <<session_prefix, adding, tmux, parents, worker_tasks,
                 projects_file, memory_file, dash_pc, inject>>

\* project input mode comes first in the dispatch of a key
InputMode ==
  /\ dash_pc = "loop"
  /\ app["dash"].project_input_mode

\* KeyCode::Char(c) in project input mode
input_char(c) ==
  /\ InputMode
  /\ Len(app["dash"].project_input) < MaxInput
  /\ app' = [app EXCEPT !["dash"].project_input = Append(@, c)]
  /\ Quiet
  /\ UNCHANGED <<session_prefix, adding, tmux, parents, worker_tasks,
                 projects_file, memory_file, dash_pc, inject>>

\* KeyCode::Backspace in project input mode: String::pop
input_backspace ==
  /\ InputMode
  /\ app' = [app EXCEPT !["dash"].project_input =
                          IF @ = <<>> THEN @ ELSE SubSeq(@, 1, Len(@) - 1)]
  /\ Quiet
  /\ UNCHANGED <<session_prefix, adding, tmux, parents, worker_tasks,
                 projects_file, memory_file, dash_pc, inject>>

\* KeyCode::Esc in project input mode
input_esc ==
  /\ InputMode
  /\ app' = [app EXCEPT !["dash"].project_input_mode = FALSE,
                        !["dash"].project_input = <<>>]
  /\ Quiet
  /\ UNCHANGED <<session_prefix, adding, tmux, parents, worker_tasks,
                 projects_file, memory_file, dash_pc, inject>>

\* KeyCode::Enter in project input mode, up to the load_projects of
\* projects::add_project; a blank name only leaves the mode
input_enter_load ==
  LET name == trim(app["dash"].project_input)
  IN  /\ InputMode
      /\ IF name = <<>>
           THEN /\ app' = [app EXCEPT !["dash"].project_input_mode = FALSE,
                                      !["dash"].project_input = <<>>]
                /\ UNCHANGED <<adding, dash_pc>>
         ELSE /\ Len(load_projects(projects_file)) < MaxProjects
              /\ adding' = [adding EXCEPT !["dash"] =
                              Some([name |-> name,
                                    projects |-> load_projects(projects_file)])]
              /\ dash_pc' = "add_project"
              /\ UNCHANGED app
      /\ Quiet
      /\ UNCHANGED <<session_prefix, tmux, parents, worker_tasks,
                     projects_file, memory_file, inject>>

\* KeyCode::Enter, from the push of projects::add_project on: save, then
\* App::add_project reloads the projects and writes the memory file, and
\* the handler sets the status and leaves the mode
input_enter_save ==
  /\ dash_pc = "add_project"
  /\ LET op == adding["dash"][1]
         W1 == [World EXCEPT
                  !.pf = save_projects(push_project(op.projects, op.name))]
         W2 == [W1 EXCEPT !.ap["dash"].projects = load_projects(W1.pf)]
         W3 == write_memory(W2, W2.ap["dash"].agents, W2.ap["dash"].manager)
         W4 == set_status(W3, "dash", "Project added")
     IN  Commit([W4 EXCEPT !.ap["dash"].project_input_mode = FALSE,
                           !.ap["dash"].project_input = <<>>])
  /\ adding' = [adding EXCEPT !["dash"] = None]
  /\ dash_pc' = "loop"
  /\ resp' = NoResponse
  /\ UNCHANGED <<session_prefix, inject>>

\* 'q' / Esc / Ctrl-c: should_quit, the loop breaks, the manager session
\* is killed and the process ends, and with it the pending injections
key_quit ==
  /\ NormalMode
  /\ app' = [app EXCEPT !["dash"].should_quit = TRUE]
  /\ tmux' = MapRemove(tmux, MANAGER_SESSION)
  /\ dash_pc' = "exited"
  /\ inject' = <<>>
  /\ adding' = NoAdds
  /\ Quiet
  /\ UNCHANGED <<session_prefix, parents, worker_tasks, projects_file,
                 memory_file>>

\* omar is started again: run_dashboard builds its two App instances
launch ==
  /\ dash_pc = "exited"
  /\ app' = [i \in AppIds |-> AppNew(projects_file)]
  /\ dash_pc' = "start"
  /\ Quiet
  /\ UNCHANGED <<session_prefix, adding, tmux, parents, worker_tasks, projects_file,
                 memory_file, inject>>

\* the omar process is killed: nothing of run_dashboard's shutdown runs
crash ==
  /\ dash_pc # "exited"
  /\ dash_pc' = "exited"
  /\ inject' = <<>>
  /\ adding' = NoAdds
  /\ Quiet
  /\ UNCHANGED <<session_prefix, tmux, parents, worker_tasks, projects_file,
                 memory_file, app>>

\* `omar spawn --name n`, run from a shell
cli_spawn(n) ==
  LET full_name == session_prefix \o n
  IN  /\ ~has_session(tmux, full_name)
      /\ LiveCount(tmux) < MaxLive
      /\ tmux' = MapInsert(tmux, full_name, NewSession)
      /\ Quiet
      /\ UNCHANGED <<session_prefix, adding, parents, worker_tasks, projects_file,
                     memory_file, app, dash_pc, inject>>

(***************************************************************************)
(* The environment: tmux sessions end, terminals attach and detach         *)
(***************************************************************************)
session_exit(n) ==
  /\ has_session(tmux, n)
  /\ tmux' = MapRemove(tmux, n)
  /\ Quiet
  /\ UNCHANGED <<session_prefix, adding, parents, worker_tasks, projects_file,
                 memory_file, app, dash_pc, inject>>

\* the program in the pane of session n prints: the pane shows fr and
\* the activity of the session is recent
pane_output(n, fr) ==
  /\ has_session(tmux, n)
  /\ tmux' = [tmux EXCEPT ![n].frame = fr, ![n].idle = 5]
  /\ Quiet
  /\ UNCHANGED <<session_prefix, adding, parents, worker_tasks, projects_file,
                 memory_file, app, dash_pc, inject>>

\* time passes without activity in session n
pane_idle(n, idle) ==
  /\ has_session(tmux, n)
  /\ idle > tmux[n].idle
  /\ tmux' = [tmux EXCEPT ![n].idle = idle]
  /\ Quiet
  /\ UNCHANGED <<session_prefix, adding, parents, worker_tasks, projects_file,
                 memory_file, app, dash_pc, inject>>

session_attach(n) ==
  /\ has_session(tmux, n)
  /\ tmux' = [tmux EXCEPT ![n].attached = ~@]
  /\ Quiet
  /\ UNCHANGED <<session_prefix, adding, parents, worker_tasks, projects_file,
                 memory_file, app, dash_pc, inject>>

(***************************************************************************)
(* Specifications                                                          *)
(***************************************************************************)
\* a fresh state directory; the terminal of the operator is attached to
\* the dashboard's own session, and another program may have a session
Init ==
  /\ session_prefix \in Prefixes
  /\ \E foreign \in SUBSET {ForeignSession} :
       tmux = [n \in {DASHBOARD_SESSION} \cup foreign |->
                 [NewSession EXCEPT !.attached = (n = DASHBOARD_SESSION)]]
  /\ parents = EmptyMap
  /\ worker_tasks = EmptyMap
  /\ projects_file = <<>>
  /\ memory_file = <<>>
  /\ app = [i \in AppIds |-> AppNew(<<>>)]
  /\ dash_pc = "start"
  /\ inject = <<>>
  /\ adding = NoAdds
  /\ resp = NoResponse
  /\ em_log = NoLog

\* Kills: the API spawns and kills while the dashboard refreshes, moves
\* its selection and kills
KillNames ==
  {<<"w">>, <<"p", "m", "-", "a">>}

KillRequests ==
  [name : {Some(n) : n \in KillNames},
   task : {None},
   role : {None},
   parent : {None, Some(<<"p", "m", "-", "a">>)}]

NextKill ==
  \/ \E req \in KillRequests : spawn_agent(req, FALSE, FALSE, NAME_LIMIT)
  \/ \E id \in Ids(KillNames), kill_fails \in BOOLEAN :
       kill_agent(id, kill_fails)
  \/ dash_start("none")
  \/ dash_tick("none")
  \/ key_next
  \/ key_d
  \/ \E kill_fails \in BOOLEAN : confirm_yes(kill_fails, "none")
  \/ confirm_other

SpecKill ==
  Init /\ [][NextKill]_vars

\* the sessions the records of a tree stand for
TreeSessions(tree) ==
  {tree[k].session_name : k \in 1..Len(tree)}

\* a session the supervisor owns: within the prefix, and neither the
\* manager's nor the dashboard's own
Owned(n) ==
  /\ starts_with(n, session_prefix)
  /\ n # MANAGER_SESSION
  /\ n # DASHBOARD_SESSION

\* the manager is the record the dashboard has selected
ManagerSelected ==
  /\ selected_agent(app["dash"]) # None
  /\ selected_agent(app["dash"])[1].name = MANAGER_SESSION

\* C2: no kill removes the manager session.  A DELETE /api/agents/:id
\* whose id, raw or resolved, is the manager's name is answered 403,
\* whether or not the manager session exists, and a DELETE answered 403
\* leaves the sessions and the persisted maps as they were; a confirmed
\* dashboard kill with the manager selected leaves them as they were and
\* sets a status message.
C2_ManagerNeverKilled ==
  [][ /\ (resp'.op = "kill" \/ ConfirmMode)
           => (has_session(tmux, MANAGER_SESSION)
                 => has_session(tmux', MANAGER_SESSION))
      /\ \A id \in Ids(KillNames), kill_fails \in BOOLEAN :
           LET n == resolve_session_name(session_prefix, id)
           IN  (id = MANAGER_SESSION \/ n = MANAGER_SESSION)
                 => kill_status(tmux, id, n, kill_fails) = 403
      /\ resp' = Response("kill", 403)
           => UNCHANGED <<tmux, parents, worker_tasks>>
      /\ (ConfirmMode /\ ManagerSelected /\ resp' = NoResponse)
           => \A kill_fails \in BOOLEAN :
                confirm_yes(kill_fails, "none")
                  => /\ app'["dash"].status_message # None
                     /\ UNCHANGED <<tmux, parents, worker_tasks>>
    ]_vars

\* a DELETE was answered 403 while the manager session was live, and the
\* dashboard has refused to kill the manager
C2_Witness ==
  /\ resp = Response("kill", 403)
  /\ has_session(tmux, MANAGER_SESSION)
  /\ app["dash"].status_message = Some("Cannot kill manager with 'd'")

\* C5: a kill that succeeds, of the API or of the dashboard, leaves no
\* entry for the killed session in the persisted parent map, and a refresh
\* leaves neither an agent record nor a tree record for a session that is
\* not live.
C5_KilledSessionVanishes ==
  [][ /\ resp' = Response("kill", 200)
           => \A id \in Ids(KillNames), kill_fails \in BOOLEAN :
                kill_agent(id, kill_fails)
                  => LET n == resolve_session_name(session_prefix, id)
                     IN  /\ ~has_session(tmux', n)
                         /\ n \notin DOMAIN parents'
      /\ (/\ ConfirmMode
          /\ resp' = NoResponse
          /\ app'["dash"].status_message = Some("Killed agent"))
           => \A kill_fails \in BOOLEAN :
                confirm_yes(kill_fails, "none")
                  => LET n == selected_agent(app["dash"])[1].name
                     IN  /\ ~has_session(tmux', n)
                         /\ n \notin DOMAIN parents'
                         /\ n \notin AgentNames(app'["dash"].agents)
                         /\ n \notin TreeSessions(app'["dash"].command_tree)
      /\ em_log'.refreshed
           => LET a == app'[em_log'.app]
              IN  /\ AgentNames(a.agents) \subseteq DOMAIN tmux'
                  /\ TreeSessions(a.command_tree)
                       \subseteq DOMAIN tmux' \cup {<<>>}
    ]_vars

\* the API has killed a session, and the dashboard has killed one and
\* refreshed
C5_Witness ==
  /\ resp = Response("kill", 200)
  /\ app["dash"].status_message = Some("Killed agent")

\* C6: an API kill removes nothing but an owned session, and a DELETE whose
\* id does not resolve to a live owned session is answered 404 (403 for
\* the manager) and kills nothing.
C6_ApiKillsOnlyOwned ==
  [][ /\ resp'.op = "kill"
           => \A m \in DOMAIN tmux \ DOMAIN tmux' : Owned(m)
      /\ (resp'.op = "kill" /\ resp'.status \notin {403, 404})
           => \A id \in Ids(KillNames), kill_fails \in BOOLEAN :
                kill_agent(id, kill_fails)
                  => LET n == resolve_session_name(session_prefix, id)
                     IN  has_session(tmux, n) /\ Owned(n)
      /\ (resp'.op = "kill" /\ resp'.status \in {403, 404})
           => UNCHANGED <<tmux, parents, worker_tasks>>
    ]_vars

\* Spawns: the API spawns and kills, a shell spawns, the dashboard
\* refreshes
SpawnRequests ==
  [name : {Some(n) : n \in ShortNames},
   task : {None},
   role : {None, Some("project-manager")},
   parent : {None, Some(<<"p", "m", "-", "a">>)}]

NextSpawn ==
  \/ \E req \in SpawnRequests, new_fails, list_fails \in BOOLEAN :
       spawn_agent(req, new_fails, list_fails, NAME_LIMIT)
  \/ \E id \in ShortNames : kill_agent(id, FALSE)
  \/ \E n \in ShortNames : cli_spawn(n)
  \/ dash_start("none")
  \/ dash_tick("none")

SpecSpawn ==
  Init /\ [][NextSpawn]_vars

\* the PM sessions of a tmux server: within the prefix, their short name
\* starts with pm-
PmSessions(tm) ==
  {n \in DOMAIN tm :
     starts_with(n, session_prefix) /\ is_pm_name(session_prefix, n)}

\* C4: a spawn that names no parent and whose role is not
\* "project-manager" records the PM session P as the parent of the new
\* session if and only if P is the only PM session live when the request
\* arrives; with no PM session or with several, it records no parent.
C4_ParentInferred ==
  [][ resp' = Response("spawn", 200)
        => \A req \in SpawnRequests :
             (/\ spawn_agent(req, FALSE, FALSE, NAME_LIMIT)
              /\ req.parent = None
              /\ req.role # Some("project-manager"))
               => LET name == resolve_session_name(session_prefix,
                                                   req.name[1])
                  IN  IF Cardinality(PmSessions(tmux)) = 1
                        THEN /\ name \in DOMAIN parents'
                             /\ parents'[name] \in PmSessions(tmux)
                        ELSE name \notin DOMAIN parents'
    ]_vars

\* Task injection: the API spawns with and without a task and kills, a
\* shell spawns, the deferred injections run, the dashboard refreshes
InjectNames ==
  {<<"w">>}

InjectRequests ==
  [name : {Some(n) : n \in InjectNames},
   task : {None} \cup {Some(t) : t \in TaskTexts},
   role : {None, Some("project-manager")},
   parent : {None}]

NextInject ==
  \/ \E req \in InjectRequests, new_fails \in BOOLEAN :
       spawn_agent(req, new_fails, FALSE, NAME_LIMIT)
  \/ \E id \in InjectNames : kill_agent(id, FALSE)
  \/ \E n \in InjectNames : cli_spawn(n)
  \/ \E k \in 1..Len(inject) : inject_text(k)
  \/ \E k \in 1..Len(inject) : inject_enter(k)
  \/ dash_start("none")
  \/ dash_tick("none")

SpecInject ==
  Init /\ [][NextInject]_vars

\* C3: a POST /api/agents whose name resolves to a live session is
\* answered 409, and a POST answered 409 changes nothing: no session, no
\* entry of the parent map or of the worker tasks, no deferred injection.
C3_ConflictChangesNothing ==
  [][ /\ (resp'.op = "spawn" /\ resp'.status # 409)
           => \A req \in InjectRequests, new_fails \in BOOLEAN :
                spawn_agent(req, new_fails, FALSE, NAME_LIMIT)
                  => ~has_session(tmux,
                        resolve_session_name(session_prefix, req.name[1]))
      /\ resp' = Response("spawn", 409)
           => UNCHANGED <<tmux, parents, worker_tasks, inject>>
    ]_vars

\* a POST was answered 409 while an injection of an earlier POST for that
\* name was pending
C3_Witness ==
  /\ resp = Response("spawn", 409)
  /\ inject # <<>>

\* Root: the dashboard refreshes while tmux calls of ensure_manager fail,
\* the manager session ends, and omar quits, is killed and is started again
NextRoot ==
  \/ \E f \in FailPoints : dash_start(f)
  \/ \E f \in FailPoints : dash_tick(f)
  \/ session_exit(MANAGER_SESSION)
  \/ key_quit
  \/ crash
  \/ launch

SpecRoot ==
  Init /\ [][NextRoot]_vars

\* what the manager session has received
ManagerRecv(tm) ==
  IF has_session(tm, MANAGER_SESSION) THEN tm[MANAGER_SESSION].recv ELSE <<>>

\* the keystrokes of a complete ensure_manager, given the memory file
RootKeys(mf) ==
  <<Literal("MANAGER_SYSTEM_PROMPT", <<>>, ""), Key("C-m")>>
  \o (IF mf # <<>> THEN <<Literal("memory", <<>>, ""), Key("C-m")>> ELSE <<>>)

IsPrefixOf(a, b) ==
  /\ Len(a) <= Len(b)
  /\ SubSeq(b, 1, Len(a)) = a

\* C7: a refresh that finds the manager session creates no session and
\* sends it nothing; a refresh that does not find it creates it and sends,
\* in this order, the system prompt as literal text, C-m, then (only when
\* the memory file is not empty) the memory text and C-m, and rewrites the
\* memory file last, after all of these.
C7_EnsureRootOrder ==
  [][ em_log'.app # "none"
        => IF has_session(tmux, MANAGER_SESSION)
             THEN tmux' = tmux
           ELSE /\ IsPrefixOf(ManagerRecv(tmux'), RootKeys(memory_file))
                /\ \A n \in DOMAIN tmux : tmux'[n] = tmux[n]
                /\ DOMAIN tmux' \subseteq DOMAIN tmux \cup {MANAGER_SESSION}
                /\ memory_file' # memory_file
                     => ManagerRecv(tmux') = RootKeys(memory_file)
                /\ em_log'.ok
                     => /\ has_session(tmux', MANAGER_SESSION)
                        /\ ManagerRecv(tmux') = RootKeys(memory_file)
                        /\ memory_file' = snapshot(None)
    ]_vars

\* a refresh created the manager session and forwarded a memory file
C7_Witness ==
  /\ em_log.app # "none"
  /\ ~em_log.had_manager
  /\ em_log.had_memory
  /\ em_log.ok
  /\ Len(ManagerRecv(tmux)) = 4

\* the system prompt has reached the manager session
PromptDelivered(tm) ==
  \E k \in 1..Len(ManagerRecv(tm)) :
    ManagerRecv(tm)[k] = Literal("MANAGER_SYSTEM_PROMPT", <<>>, "")

\* C8: once ensure_manager has created the manager session, its system
\* prompt is eventually delivered as long as refresh keeps being invoked,
\* also after a failed tmux call or a stop of omar between the creation
\* and the prompt.  Only a refresh sends the prompt, and what it sends
\* depends on has_session alone; so a refresh that found the session
\* live, met no failing call and left the session live has the prompt
\* delivered, or every later refresh leaves it undelivered as well.
C8_PromptDelivered ==
  (/\ em_log.refreshed
   /\ em_log.had_manager
   /\ has_session(tmux, MANAGER_SESSION))
    => PromptDelivered(tmux)

\* Health: the panes of the manager and of a worker print and fall idle
\* while the dashboard refreshes
HealthSessions ==
  {MANAGER_SESSION, session_prefix \o <<"w">>}

NextHealth ==
  \/ cli_spawn(<<"w">>)
  \/ \E n \in HealthSessions, fr \in Frames : pane_output(n, fr)
  \/ \E n \in HealthSessions, idle \in IdleValues : pane_idle(n, idle)
  \/ dash_start("none")
  \/ dash_tick("none")

SpecHealth ==
  Init /\ [][NextHealth]_vars

\* the records an App holds: its agents and its manager
Records(a) ==
  Range(a.agents) \cup (IF a.manager = None THEN {} ELSE {a.manager[1]})

\* C9: a refresh reports a session as running (HealthState::Working in
\* health.rs) on its first observation and, later, exactly when the
\* capture differs from the capture of the previous observation;
\* otherwise it reports Idle.  A session whose pane is unchanged across
\* two consecutive ticks is Idle after the second.
C9_FrameDiff ==
  [][ (em_log'.refreshed /\ em_log'.app = "dash")
        => \A r \in Records(app'["dash"]) :
             LET prev == {q \in Records(app["dash"]) : q.name = r.name}
             IN  IF prev = {} \/ \E q \in prev : q.last_output # r.last_output
                   THEN r.health = "Working"
                   ELSE r.health = "Idle"
    ]_vars

\* C10: the health of every agent record and of the manager record is
\* running (HealthState::Working in health.rs) or Idle, never a third
\* classification.
C10_RunningOrIdle ==
  \A i \in AppIds : \A r \in Records(app[i]) : r.health \in {"Working", "Idle"}

\* Race: a POST /api/projects runs on a worker thread while the operator
\* types a project name into the dashboard and presses Enter
NextRace ==
  \/ \E name \in ProjectNames : api_add_project_load(name)
  \/ api_add_project_save
  \/ dash_start("none")
  \/ dash_tick("none")
  \/ key_p
  \/ \E c \in InputChars : input_char(c)
  \/ input_backspace
  \/ input_esc
  \/ input_enter_load
  \/ input_enter_save

SpecRace ==
  Init /\ [][NextRace]_vars

\* the names of the projects in the file, in order
ProjectList(pf) ==
  [k \in 1..Len(load_projects(pf)) |-> load_projects(pf)[k].name]

\* C1: handlers hold one mutex for their reads and writes, so a run of
\* concurrent API requests and dashboard events ends as some serial order
\* of them does.  When the operations are project additions, every serial
\* order only appends: each step leaves a project list that extends the
\* list it found, and an addition of the API and one of the dashboard are
\* both in the list at the end.
C1_SerialHistory ==
  [][IsPrefixOf(ProjectList(projects_file), ProjectList(projects_file'))]_vars

\* Restart: the API spawns workers with a parent and a task and kills
\* them, the deferred injections run, the dashboard refreshes, the manager
\* session ends, and omar quits and is started again
RestartRequests ==
  [name : {Some(<<"w">>)},
   task : {None} \cup {Some(t) : t \in TaskTexts},
   role : {None},
   parent : {None, Some(<<"p", "m", "-", "a">>)}]

NextRestart ==
  \/ \E req \in RestartRequests : spawn_agent(req, FALSE, FALSE, NAME_LIMIT)
  \/ kill_agent(<<"w">>, FALSE)
  \/ \E k \in 1..MaxPending : inject_text(k)
  \/ \E k \in 1..MaxPending : inject_enter(k)
  \/ dash_start("none")
  \/ dash_tick("none")
  \/ session_exit(MANAGER_SESSION)
  \/ key_quit
  \/ launch

SpecRestart ==
  Init /\ [][NextRestart]_vars

\* C11: no operation other than a kill of the session removes from the
\* parent map or from the worker tasks an entry whose key is a live
\* session the supervisor owns; a refresh, with the write_memory that
\* belongs to it, drops only entries of sessions that are not live, also
\* after omar was quit and started again while the workers stayed alive.
C11_LiveEntriesKept ==
  [][ \A n \in DOMAIN tmux' :
        (Owned(n) /\ ~tmux'[n].attached)
          => /\ n \in DOMAIN parents => n \in DOMAIN parents'
             /\ n \in DOMAIN worker_tasks => n \in DOMAIN worker_tasks'
    ]_vars


\* C12: a POST /api/agents with a task that is answered 200 has, in the
\* state it answers in, created the session, recorded the task in the worker
\* tasks under the session's full name, and left the injection pending with
\* nothing sent yet; the injection then sends the literal text in a later
\* step, and its Enter key only in a step after the one that sent the text.
C12_TaskRecordedThenInjected ==
  [][ /\ \A req \in InjectRequests :
           (/\ resp'.op = "spawn" /\ resp'.status = 200
            /\ req.task # None
            /\ spawn_agent(req, FALSE, FALSE, NAME_LIMIT))
             => LET name == resolve_session_name(session_prefix, req.name[1])
                IN  /\ ~has_session(tmux, name)
                    /\ has_session(tmux', name)
                    /\ tmux'[name].recv = <<>>
                    /\ name \in DOMAIN worker_tasks'
                    /\ worker_tasks'[name] = req.task[1]
                    /\ inject' = Append(inject,
                                        [session |-> name, stage |-> "text",
                                         text |-> full_prompt(req, name)])
      /\ \A k \in 1..Len(inject) :
           (Len(inject') = Len(inject) /\ inject'[k] # inject[k])
             => /\ inject[k].stage = "text"
                /\ inject'[k] = [inject[k] EXCEPT !.stage = "enter"]
                /\ tmux' = IF has_session(tmux, inject[k].session)
                             THEN send_keys(tmux, inject[k].session,
                                            inject[k].text)
                             ELSE tmux
      /\ Len(inject') < Len(inject)
           => \E k \in 1..Len(inject) :
                /\ inject[k].stage = "enter"
                /\ inject' = RemoveAt(inject, k)
                /\ tmux' = IF has_session(tmux, inject[k].session)
                             THEN send_keys(tmux, inject[k].session,
                                            Key("Enter"))
                             ELSE tmux
    ]_vars

C12_Witness ==
  \E n \in DOMAIN tmux :
    /\ n \in DOMAIN worker_tasks
    /\ tmux[n].recv = <<Literal("", <<>>, worker_tasks[n]), Key("Enter")>>
    /\ inject = <<>>

\* C13: a pending injection whose target session has ended is delivered to
\* no session: its steps change no session, and no session of the target's
\* name comes to life while the injection is pending.
C13_DeadTargetGetsNothing ==
  [][ \A k \in 1..Len(inject) :
        ~has_session(tmux, inject[k].session)
          => /\ (inject_text(k) \/ inject_enter(k)) => tmux' = tmux
             /\ ~has_session(tmux', inject[k].session)
    ]_vars


(***************************************************************************)
(* api/handlers.rs: send_input                                             *)
(***************************************************************************)
\* keys one session may have received in the states explored
MaxRecv == 3

SendInputRequests ==
  [text : TaskTexts, enter : BOOLEAN]

\* what send_input gets through to the session: the literal text, then
\* Enter when asked for; a send that fails delivers nothing and ends the
\* handler
input_keys_enter_first(req, text_fails, enter_fails) ==
  IF text_fails THEN <<>>
  ELSE (IF req.enter /\ ~enter_fails THEN <<Key("Enter")>> ELSE <<>>)
         \o <<Literal("", <<>>, req.text)>>

input_keys(req, text_fails, enter_fails) ==
  IF text_fails THEN <<>>
  ELSE <<Literal("", <<>>, req.text)>>
         \o (IF req.enter /\ ~enter_fails THEN <<Key("Enter")>> ELSE <<>>)

\* the status send_input answers with
input_status(tm, session_name, req, text_fails, enter_fails) ==
  IF ~has_session(tm, session_name) THEN 404
  ELSE IF text_fails THEN 500
  ELSE IF req.enter /\ enter_fails THEN 500
  ELSE 200

\* POST /api/agents/:id/send; text_fails, enter_fails: the tmux send-keys
\* of the text, of the Enter key, fails
send_input(id, req, text_fails, enter_fails) ==
  LET session_name == resolve_session_name(session_prefix, id)
      keys == input_keys(req, text_fails, enter_fails)
  IN  /\ Serving
      /\ IF has_session(tmux, session_name)
           THEN /\ Len(tmux[session_name].recv) + Len(keys) <= MaxRecv
                /\ tmux' = [tmux EXCEPT ![session_name].recv = @ \o keys]
           ELSE tmux' = tmux
      /\ resp' = Response("input", input_status(tmux, session_name, req,
                                                 text_fails, enter_fails))
      /\ em_log' = NoLog
      /\ UNCHANGED <<session_prefix, adding, parents, worker_tasks,
                     projects_file, memory_file, app, dash_pc, inject>>

InputIds ==
  {<<"w">>, default_session_prefix \o <<"w">>, MANAGER_SESSION}

NextInput ==
  \/ \E id \in InputIds, req \in SendInputRequests,
        text_fails, enter_fails \in BOOLEAN :
       send_input(id, req, text_fails, enter_fails)
  \/ cli_spawn(<<"w">>)
  \/ \E id \in InputIds : kill_agent(id, FALSE)
  \/ dash_start("none")
  \/ key_quit

SpecInput ==
  Init /\ [][NextInput]_vars

\* C14: a POST /api/agents/:id/send for a session that is not live is
\* answered 404 and sends nothing; for a live session the text goes in
\* first as literal input and the Enter key after it exactly when enter is
\* true, with 200; a send that fails is answered 500, and what was sent
\* before it stays sent.
C14_SendInput ==
  [][ \A id \in InputIds, req \in SendInputRequests,
         text_fails, enter_fails \in BOOLEAN :
        (resp'.op = "input" /\ send_input(id, req, text_fails, enter_fails))
          => LET s == resolve_session_name(session_prefix, id)
                 text == Literal("", <<>>, req.text)
             IN  /\ DOMAIN tmux' = DOMAIN tmux
                 /\ \A n \in DOMAIN tmux \ {s} : tmux'[n] = tmux[n]
                 /\ ~has_session(tmux, s) <=> resp'.status = 404
                 /\ has_session(tmux, s)
                      => /\ resp'.status \in {200, 500}
                         /\ resp'.status = 500
                              <=> (text_fails \/ (req.enter /\ enter_fails))
                         /\ tmux'[s].recv =
                              tmux[s].recv
                                \o (IF text_fails THEN <<>> ELSE <<text>>)
                                \o (IF req.enter /\ ~text_fails /\ ~enter_fails
                                      THEN <<Key("Enter")>> ELSE <<>>)
    ]_vars

C14_Witness ==
  /\ resp = Response("input", 200)
  /\ \E n \in DOMAIN tmux :
       /\ Len(tmux[n].recv) = 2
       /\ tmux[n].recv[1].kind = "literal"
       /\ tmux[n].recv[2] = Key("Enter")


(***************************************************************************)
(* projects.rs: remove_project; api/handlers.rs: complete_project          *)
(***************************************************************************)
\* remove_project finds the id: it is neither 0 nor beyond the list
remove_found_off_by_one(projects, id) ==
  ~(id = 0 \/ id > Len(projects) + 1)

remove_found(projects, id) ==
  ~(id = 0 \/ id > Len(projects))

\* the content of the file after projects::remove_project(id)
remove_project(pf, id) ==
  LET projects == load_projects(pf)
  IN  IF remove_found(projects, id)
        THEN save_projects(RemoveAt(projects, id))
        ELSE pf

\* DELETE /api/projects/:id; like add_project it takes no State
api_complete_project(id) ==
  /\ Serving
  /\ projects_file' = remove_project(projects_file, id)
  /\ resp' = Response("complete_project",
                      IF remove_found(load_projects(projects_file), id)
                        THEN 200 ELSE 404)
  /\ em_log' = NoLog
  /\ UNCHANGED <<session_prefix, adding, tmux, parents, worker_tasks,
                 memory_file, app, dash_pc, inject>>

\* names a POST /api/projects may carry: plain, empty, blank, padded
RequestNames ==
  {<<"A">>, <<"B">>, <<>>, <<" ">>, <<" ", "A">>}

ProjectIds ==
  0..(MaxProjects + 1)

NextProjects ==
  \/ \E name \in RequestNames : api_add_project_load(name)
  \/ api_add_project_save
  \/ \E id \in ProjectIds : api_complete_project(id)

SpecProjects ==
  Init /\ [][NextProjects]_vars

\* the POST /api/projects that this step answers
Added ==
  IF adding["api"] # None /\ adding'["api"] = None
    THEN adding["api"] ELSE None

\* C15: the loaded project list always has the ids 1..N in list order; an
\* add that found N projects returns N+1, and the new project is then the
\* last of the list, under that id; a remove of id k leaves the projects
\* before k alone and lowers the id of every later project by one.
C15_IdsArePositions ==
  [][ LET old == load_projects(projects_file)
          new == load_projects(projects_file')
      IN  /\ \A i \in 1..Len(new) : new[i].id = i
          /\ Added # None
               => LET id == Len(Added[1].projects) + 1
                  IN  /\ Len(new) = id
                      /\ new[id].id = id
          /\ \A k \in ProjectIds :
               (resp' = Response("complete_project", 200)
                  /\ api_complete_project(k))
                 => /\ Len(new) = Len(old) - 1
                    /\ \A j \in 1..Len(old) :
                         /\ j < k => new[j] = old[j]
                         /\ j > k => new[j - 1] =
                                       [id |-> old[j].id - 1,
                                        name |-> old[j].name]
    ]_vars

\* C16: saving a list of projects and loading it yields the same names in
\* the same order with id equal to position, so the list loaded after an
\* add is the list the add saved: the projects it had loaded and the new
\* one under the name of the request.
C16_SaveLoadRoundTrip ==
  [][ Added # None
        => load_projects(projects_file')
             = push_project(Added[1].projects, Added[1].name)
    ]_vars

\* C17: a DELETE /api/projects/:id with id 0 or an id greater than the
\* number of projects is answered 404 and leaves the project file as it
\* was; every other id is answered 200.
C17_RemoveUnknownId ==
  [][ \A id \in ProjectIds :
        (resp'.op = "complete_project" /\ api_complete_project(id))
          => LET n == Len(load_projects(projects_file))
             IN  IF id = 0 \/ id > n
                   THEN /\ resp'.status = 404
                        /\ projects_file' = projects_file
                   ELSE resp'.status = 200
    ]_vars

C17_Witness ==
  /\ resp = Response("complete_project", 404)
  /\ Len(load_projects(projects_file)) = 1


(***************************************************************************)
(* app.rs: build_agent_groups, and the builders on arbitrary inputs        *)
(***************************************************************************)
\* the workers build_agent_groups hands to the PM at pm_idx:
\* pm_children.remove(name), so a second PM of the same name gets none
group_workers(pm_idx, pms, non_pms, agent_parents) ==
  IF \E j \in 1..(pm_idx - 1) : pms[j].name = pms[pm_idx].name
    THEN <<>>
    ELSE pm_children_of(pms[pm_idx], non_pms, pms, agent_parents)

build_agent_groups(agents, agent_parents, prefix) ==
  LET pms == pms_of(agents, prefix)
      non_pms == non_pms_of(agents, prefix)
      orphans == orphans_of(non_pms, pms, agent_parents)
  IN  [k \in 1..Len(pms) |->
         [pm |-> Some(pms[k]),
          workers |-> group_workers(k, pms, non_pms, agent_parents)]]
      \o (IF orphans = <<>> THEN <<>>
          ELSE <<[pm |-> None, workers |-> orphans]>>)

\* App::agent_groups
agent_groups(a) ==
  build_agent_groups(a.agents, a.agent_parents, session_prefix)

\* the end of App::refresh: load_agent_parents and build_tree
build_command_tree ==
  /\ app["dash"].command_tree = <<>>
  /\ app' = [app EXCEPT
               !["dash"].agent_parents = parents,
               !["dash"].command_tree =
                 build_tree(app["dash"].agents, app["dash"].manager, parents,
                            session_prefix)]
  /\ Quiet
  /\ UNCHANGED <<session_prefix, adding, tmux, parents, worker_tasks,
                 projects_file, memory_file, dash_pc, inject>>

\* the agents a builder is given: at most MaxAgents, no session twice
MaxAgents == 3

BuildNames ==
  {<<"w">>, <<"v">>, <<"p", "m", "-", "a">>, <<"p", "m", "-", "b">>}

\* a session that is gone
VanishedName ==
  <<"p", "m", "-", "g">>

AgentLists(names) ==
  UNION {{s \in [1..n -> names] :
            \A i, j \in 1..n : i # j => s[i] # s[j]} : n \in 0..MaxAgents}

ParentMaps(keys, values) ==
  UNION {[K -> values] : K \in SUBSET keys}

InitBuild ==
  /\ session_prefix \in Prefixes
  /\ tmux = [n \in {DASHBOARD_SESSION} |->
               [NewSession EXCEPT !.attached = TRUE]]
  /\ parents \in ParentMaps(
                   {session_prefix \o n :
                      n \in {<<"w">>, <<"v">>, <<"p", "m", "-", "a">>}},
                   {session_prefix \o n : n \in BuildNames \cup {VanishedName}})
  /\ worker_tasks = EmptyMap
  /\ projects_file = <<>>
  /\ memory_file = <<>>
  /\ \E names \in AgentLists(BuildNames),
        manager \in {None, Some([name |-> MANAGER_SESSION, attached |-> FALSE,
                                 health |-> "Working", last_output |-> "ok"])} :
       app = [i \in AppIds |->
                IF i = "dash"
                  THEN [AppNew(<<>>) EXCEPT
                          !.manager = manager,
                          !.agents = [k \in 1..Len(names) |->
                                        [name |-> session_prefix \o names[k],
                                         attached |-> FALSE,
                                         health |-> "Idle",
                                         last_output |-> "ok"]]]
                  ELSE AppNew(<<>>)]
  /\ dash_pc = "loop"
  /\ inject = <<>>
  /\ adding = NoAdds
  /\ resp = NoResponse
  /\ em_log = NoLog

NextBuild ==
  build_command_tree

SpecBuild ==
  InitBuild /\ [][NextBuild]_vars

\* the tree the dashboard holds once it is built, and the place of a
\* session in it (0: not in the tree)
Tree ==
  app["dash"].command_tree

IsPmNode(node) ==
  /\ node.depth = 1
  /\ is_pm_name(session_prefix, node.session_name)

IsUnassignedNode(node) ==
  node = [name |-> UNASSIGNED_LABEL, session_name |-> <<>>,
          health |-> "Idle", depth |-> 1, is_last_sibling |-> TRUE,
          ancestor_is_last |-> <<TRUE>>]

\* the index of the nearest node of depth 1 before place i, 0 if none
ParentPlace(tree, i) ==
  LET before == {j \in 1..(i - 1) : tree[j].depth = 1}
  IN  IF before = {} THEN 0
      ELSE CHOOSE j \in before : \A h \in before : h <= j

\* C18: a built tree has exactly one node of depth 0 and it is the first;
\* every depth is 0, 1 or 2; every node of depth 2 has a node of depth 1
\* before it, and the nearest one is a PM or the Unassigned node; the
\* ancestor_is_last of every node is as long as its depth.
C18_TreeShape ==
  Tree # <<>>
    => /\ Tree[1].depth = 0
       /\ \A i \in 2..Len(Tree) : Tree[i].depth # 0
       /\ \A i \in 1..Len(Tree) :
            /\ Tree[i].depth \in {0, 1, 2}
            /\ Len(Tree[i].ancestor_is_last) = Tree[i].depth
            /\ Tree[i].depth = 2
                 => /\ ParentPlace(Tree, i) # 0
                    /\ \/ IsPmNode(Tree[ParentPlace(Tree, i)])
                       \/ IsUnassignedNode(Tree[ParentPlace(Tree, i)])

C18_Witness ==
  /\ app["dash"].manager = None
  /\ Len(Tree) = 5
  /\ IsPmNode(Tree[2])
  /\ Tree[3].depth = 2
  /\ IsUnassignedNode(Tree[4])
  /\ Tree[5].depth = 2


\* the agents the dashboard holds, and its groups
Agents ==
  app["dash"].agents

Groups ==
  agent_groups(app["dash"])

\* the places of an agent among the workers of the groups g, in the tree
WorkerPlaces(g, a) ==
  {p \in (1..Len(g)) \X (1..MaxAgents) :
     p[2] <= Len(g[p[1]].workers) /\ g[p[1]].workers[p[2]] = a}

TreePlaces(a) ==
  {i \in 1..Len(Tree) : Tree[i].session_name = a.name}

\* the entry of the parent map for agent a names no PM of the agent list
StaleParent(a) ==
  /\ ~is_pm_name(session_prefix, a.name)
  /\ a.name \in DOMAIN app["dash"].agent_parents
  /\ ~\E k \in 1..Len(Agents) :
        /\ is_pm_name(session_prefix, Agents[k].name)
        /\ Agents[k].name = app["dash"].agent_parents[a.name]

PlaceOf(a) ==
  CHOOSE k \in 1..Len(Agents) : Agents[k] = a

\* C20: the groups partition the non-PM agents: every non-PM agent is a
\* worker of exactly one group and no PM is a worker; every PM heads
\* exactly one group; the PM groups come in the order of the agent list
\* and the workers of a group in the order of the agent list; the group
\* without a head is there only with workers, and only as the last.
C20_GroupsPartition ==
  LET g == Groups
  IN  /\ \A k \in 1..Len(Agents) :
           IF is_pm_name(session_prefix, Agents[k].name)
             THEN /\ WorkerPlaces(g, Agents[k]) = {}
                  /\ Cardinality({i \in 1..Len(g) :
                                    g[i].pm = Some(Agents[k])}) = 1
             ELSE Cardinality(WorkerPlaces(g, Agents[k])) = 1
      /\ \A i \in 1..Len(g) :
           /\ \A j \in 1..Len(g[i].workers) :
                /\ \E k \in 1..Len(Agents) : Agents[k] = g[i].workers[j]
                /\ \A h \in 1..(j - 1) :
                     PlaceOf(g[i].workers[h]) < PlaceOf(g[i].workers[j])
           /\ IF g[i].pm = None
                THEN i = Len(g) /\ g[i].workers # <<>>
                ELSE /\ \E k \in 1..Len(Agents) : Agents[k] = g[i].pm[1]
                     /\ is_pm_name(session_prefix, g[i].pm[1].name)
                     /\ \A h \in 1..(i - 1) :
                          PlaceOf(g[h].pm[1]) < PlaceOf(g[i].pm[1])

C20_Witness ==
  /\ Len(Groups) = 2
  /\ Groups[1].pm # None
  /\ Groups[1].workers # <<>>
  /\ Groups[2].pm = None


(***************************************************************************)
(* app.rs: generate_agent_name on agent lists of every size                *)
(***************************************************************************)
\* the seconds since the epoch when the fallback name is made
Clocks ==
  {1700000000}

\* the agent list of an App that holds the sessions prefix 1 .. prefix m,
\* all but the one numbered hole (0: none missing)
NumberedAgents(prefix, m, hole) ==
  LET all == [k \in 1..m |->
                [name |-> prefix \o to_string(k), attached |-> FALSE,
                 health |-> "Idle", last_output |-> "ok"]]
      Kept(a) == a.name # prefix \o to_string(hole)
  IN  SelectSeq(all, Kept)

\* how many numbered sessions the list holds, and which one is missing
NameCounts ==
  {0, 2, NAME_LIMIT - 1, NAME_LIMIT}

NameHoles ==
  {0, 1, 2, 500, NAME_LIMIT - 1}

InitName ==
  /\ session_prefix \in Prefixes
  /\ \E foreign \in SUBSET {ForeignSession} :
       tmux = [n \in {DASHBOARD_SESSION} \cup foreign |->
                 [NewSession EXCEPT !.attached = (n = DASHBOARD_SESSION)]]
  /\ parents = EmptyMap
  /\ worker_tasks = EmptyMap
  /\ projects_file = <<>>
  /\ memory_file = <<>>
  /\ \E m \in NameCounts, hole \in NameHoles :
       /\ hole <= m
       /\ app = [i \in AppIds |->
                   IF i = "api"
                     THEN [AppNew(<<>>) EXCEPT
                             !.agents = NumberedAgents(session_prefix, m, hole)]
                     ELSE AppNew(<<>>)]
  /\ dash_pc = "start"
  /\ inject = <<>>
  /\ adding = NoAdds
  /\ resp = NoResponse
  /\ em_log = NoLog

NameRequests ==
  [name : {None}, task : {None}, role : {None}, parent : {None}]

NextName ==
  \/ \E req \in NameRequests, new_fails \in BOOLEAN, now \in Clocks :
       spawn_agent(req, new_fails, FALSE, now)
  \/ list_agents("none")

SpecName ==
  InitName /\ [][NextName]_vars

\* the numbers k of 1..999 for which prefix k is not in the agent list
FreeNumbers(a) ==
  {k \in 1..(NAME_LIMIT - 1) :
     \A i \in 1..Len(a.agents) :
       a.agents[i].name # session_prefix \o to_string(k)}

\* C21: a POST /api/agents without a name that is answered 200 has created
\* the session prefix k for the smallest k of 1..999 whose name is not in
\* the agent list, and the session prefix seconds-since-the-epoch only when
\* every one of prefix 1 .. prefix 999 is in the list.
C21_SmallestFreeNumber ==
  [][ (resp' = Response("spawn", 200))
        => LET free == FreeNumbers(app["api"])
               born == DOMAIN tmux' \ DOMAIN tmux
           IN  IF free = {}
                 THEN \E now \in Clocks :
                        born = {session_prefix \o to_string(now)}
                 ELSE \E k \in free :
                        /\ \A h \in free : k <= h
                        /\ born = {session_prefix \o to_string(k)}
    ]_vars

C21_Witness ==
  /\ resp = Response("spawn", 200)
  /\ \E now \in Clocks :
       has_session(tmux, session_prefix \o to_string(now))


(***************************************************************************)
(* api/handlers.rs: resolve_session_name and display_name on many names    *)
(***************************************************************************)
\* configured prefixes: none, one letter, two letters, the default
ResolvePrefixes ==
  {<<>>, <<"w">>, <<"a", "b">>, default_session_prefix}

\* names a request may carry: a part of a prefix, a prefix, a name that
\* goes on after a prefix, a name that holds a prefix further in
ResolveNames ==
  {<<"a">>, <<"w">>, <<"a", "b">>, <<"a", "b", "a">>, <<"b", "a", "b">>,
   <<"w", "w">>, default_session_prefix \o <<"w">>}

ResolveRequests ==
  [name : {Some(n) : n \in ResolveNames}, task : {None}, role : {None},
   parent : {None}]

InitResolve ==
  /\ session_prefix \in ResolvePrefixes
  /\ tmux = [n \in {DASHBOARD_SESSION} |->
               [NewSession EXCEPT !.attached = TRUE]]
  /\ parents = EmptyMap
  /\ worker_tasks = EmptyMap
  /\ projects_file = <<>>
  /\ memory_file = <<>>
  /\ app = [i \in AppIds |-> AppNew(<<>>)]
  /\ dash_pc = "start"
  /\ inject = <<>>
  /\ adding = NoAdds
  /\ resp = NoResponse
  /\ em_log = NoLog

NextResolve ==
  \/ \E req \in ResolveRequests : spawn_agent(req, FALSE, FALSE, NAME_LIMIT)
  \/ \E id \in ResolveNames : kill_agent(id, FALSE)

SpecResolve ==
  InitResolve /\ [][NextResolve]_vars

\* C22: the session a named POST /api/agents creates resolves to itself;
\* when the name s of the request does not start with the prefix p, the
\* session is p+s, its display name is s again, and p+s resolves to
\* itself.
C22_ResolveDisplayRoundTrip ==
  [][ \A req \in ResolveRequests :
        (resp' = Response("spawn", 200)
           /\ spawn_agent(req, FALSE, FALSE, NAME_LIMIT))
          => LET p == session_prefix
                 s == req.name[1]
                 born == DOMAIN tmux' \ DOMAIN tmux
             IN  /\ born # {}
                 /\ \A n \in born :
                      resolve_session_name(p, n) = n
                 /\ ~starts_with(s, p)
                      => /\ born = {p \o s}
                         /\ \A n \in born : display_name(p, n) = s
                         /\ resolve_session_name(p, p \o s) = p \o s
    ]_vars

C22_Witness ==
  /\ session_prefix = <<"a", "b">>
  /\ resp = Response("spawn", 200)
  /\ has_session(tmux, <<"a", "b", "a">>)
  /\ has_session(tmux, <<"a", "b", "b", "a", "b">>)
  /\ ~has_session(tmux, <<"a", "b">>)


(***************************************************************************)
(* Navigation: sessions come and go, the dashboard refreshes and the       *)
(* operator moves the selection up and down                                *)
(***************************************************************************)
NavNames ==
  {<<"w">>, <<"v">>}

NextNav ==
  \/ dash_start("none")
  \/ \E f \in {"none", "new_session", "list_all_sessions"} : dash_tick(f)
  \/ \E n \in NavNames : cli_spawn(n)
  \/ \E n \in NavNames : session_exit(session_prefix \o n)
  \/ session_exit(MANAGER_SESSION)
  \/ key_next
  \/ key_previous

SpecNav ==
  Init /\ [][NextNav]_vars

\* what is selected: the root, or the worker at a place of the agent list
AtRoot ==
  <<"root">>

AtWorker(i) ==
  <<"worker", i>>

Selection(a) ==
  IF a.manager_selected THEN AtRoot ELSE AtWorker(a.selected)

\* the ring [root, w0, .., w(n-1), root], forwards and backwards
RingNext(sel, n) ==
  IF sel = AtRoot THEN AtWorker(0)
  ELSE IF sel[2] + 1 < n THEN AtWorker(sel[2] + 1)
  ELSE AtRoot

RingPrevious(sel, n) ==
  IF sel = AtRoot THEN AtWorker(n - 1)
  ELSE IF sel[2] > 0 THEN AtWorker(sel[2] - 1)
  ELSE AtRoot

RECURSIVE next_times(_, _)
next_times(a, k) ==
  IF k = 0 THEN a ELSE next_times(next(a), k - 1)

\* C23: with n >= 1 workers in the agent list, 'j' moves the selection one
\* place forwards on the ring root, w0, .., w(n-1), root and 'k' one place
\* backwards; previous after next and next after previous give the
\* selection back, and so do n+1 times next.
C23_SelectionRing ==
  [][ LET a == app["dash"]
          n == Len(a.agents)
      IN  (n >= 1 /\ NormalMode)
            => /\ key_next
                    => Selection(app'["dash"]) = RingNext(Selection(a), n)
               /\ key_previous
                    => Selection(app'["dash"]) = RingPrevious(Selection(a), n)
               /\ Selection(previous(next(a))) = Selection(a)
               /\ Selection(next(previous(a))) = Selection(a)
               /\ Selection(next_times(a, n + 1)) = Selection(a)
    ]_vars

C23_Witness ==
  /\ Len(app["dash"].agents) = 2
  /\ ~app["dash"].manager_selected
  /\ app["dash"].selected = 1


\* C24: in every state, a dashboard whose agent list is empty has the root
\* selected, and a dashboard whose root is not selected has a selection
\* index that is a place of its agent list.
C24_RootSelectedWhenEmpty ==
  LET a == app["dash"]
  IN  /\ a.agents = <<>> => a.manager_selected
      /\ ~a.manager_selected => a.selected < Len(a.agents)


(***************************************************************************)
(* main.rs: the keys of interactive mode; app.rs: enter_interactive,       *)
(* send_key_to_selected, send_text_to_selected                             *)
(***************************************************************************)
\* key events: Esc, the character q, Ctrl-c, and Delete
KeyEvents ==
  {"Esc", "q", "C-c", "Delete"}

\* what the interactive dispatch of run_dashboard sends for a key event:
\* a tmux key name, the character as literal text, or nothing for the keys
\* of its `_ => {}` arm
key_sent(key) ==
  IF key \in {"Enter", "Tab", "Up", "Down", "Left", "Right"} THEN Some(Key(key))
  ELSE IF key = "Backspace" THEN Some(Key("BSpace"))
  ELSE IF key = "C-c" THEN Some(Key("C-c"))
  ELSE IF key \in {"q", "d"} THEN Some(Literal("", <<>>, key))
  ELSE None

\* a key reaches the interactive dispatch of the loop
InteractiveMode ==
  /\ dash_pc = "loop"
  /\ ~app["dash"].project_input_mode
  /\ app["dash"].interactive_mode

\* 'i': App::enter_interactive
key_i ==
  /\ NormalMode
  /\ app' = IF selected_agent(app["dash"]) # None
              THEN [app EXCEPT !["dash"].interactive_mode = TRUE]
              ELSE app
  /\ Quiet
  /\ UNCHANGED <<session_prefix, adding, tmux, parents, worker_tasks,
                 projects_file, memory_file, dash_pc, inject>>

\* Esc in interactive mode: App::exit_interactive
interactive_esc ==
  /\ InteractiveMode
  /\ app' = [app EXCEPT !["dash"].interactive_mode = FALSE]
  /\ Quiet
  /\ UNCHANGED <<session_prefix, adding, tmux, parents, worker_tasks,
                 projects_file, memory_file, dash_pc, inject>>

\* any other key in interactive mode: send_key_to_selected or
\* send_text_to_selected, whose error is dropped
interactive_key(key) ==
  LET sel == selected_agent(app["dash"])
      sent == key_sent(key)
  IN  /\ InteractiveMode
      /\ key # "Esc"
      /\ IF sel # None /\ sent # None /\ has_session(tmux, sel[1].name)
           THEN /\ Len(tmux[sel[1].name].recv) < MaxRecv
                /\ tmux' = send_keys(tmux, sel[1].name, sent[1])
           ELSE tmux' = tmux
      /\ Quiet
      /\ UNCHANGED <<session_prefix, adding, parents, worker_tasks,
                     projects_file, memory_file, app, dash_pc, inject>>

NextInteractive ==
  \/ dash_start("none")
  \/ dash_tick("none")
  \/ cli_spawn(<<"w">>)
  \/ key_next
  \/ key_d
  \/ confirm_other
  \/ key_quit
  \/ key_i
  \/ interactive_esc
  \/ \E key \in KeyEvents : interactive_key(key)

SpecInteractive ==
  Init /\ [][NextInteractive]_vars

\* C25: while interactive mode is set, every key other than Esc is one the
\* dispatch forwards; the step of such a key leaves the App of the
\* dashboard, the set of sessions and the loop as they are and adds the
\* key to what the selected session received; Esc clears interactive mode
\* and sends nothing.
C25_InteractiveKeysForwarded ==
  [][ InteractiveMode
        => /\ \A key \in KeyEvents \ {"Esc"} :
                /\ key_sent(key) # None
                /\ interactive_key(key)
                     => /\ app' = app
                        /\ dash_pc' = dash_pc
                        /\ DOMAIN tmux' = DOMAIN tmux
                        /\ \A n \in DOMAIN tmux :
                             tmux'[n] # tmux[n]
                               => /\ selected_agent(app["dash"]) # None
                                  /\ n = selected_agent(app["dash"])[1].name
                                  /\ Len(tmux'[n].recv) = Len(tmux[n].recv) + 1
           /\ interactive_esc
                => /\ ~app'["dash"].interactive_mode
                   /\ tmux' = tmux
    ]_vars


(***************************************************************************)
(* main.rs: the end of run_dashboard, step by step, while the API server   *)
(* of the same process still answers                                       *)
(***************************************************************************)
\* 'q' / Esc / Ctrl-c: should_quit, and the loop breaks
key_q ==
  /\ NormalMode
  /\ app' = [app EXCEPT !["dash"].should_quit = TRUE]
  /\ dash_pc' = "shutdown"
  /\ Quiet
  /\ UNCHANGED <<session_prefix, adding, tmux, parents, worker_tasks,
                 projects_file, memory_file, inject>>

\* after the loop: has_session(MANAGER_SESSION), then kill_session
shutdown_kill_manager ==
  /\ dash_pc = "shutdown"
  /\ tmux' = MapRemove(tmux, MANAGER_SESSION)
  /\ dash_pc' = "returning"
  /\ Quiet
  /\ UNCHANGED <<session_prefix, adding, parents, worker_tasks,
                 projects_file, memory_file, app, inject>>

\* run_dashboard returns, the runtime is dropped and the process ends
process_end ==
  /\ dash_pc = "returning"
  /\ dash_pc' = "exited"
  /\ inject' = <<>>
  /\ adding' = NoAdds
  /\ Quiet
  /\ UNCHANGED <<session_prefix, tmux, parents, worker_tasks, projects_file,
                 memory_file, app>>

NextShutdown ==
  \/ dash_start("none")
  \/ dash_tick("none")
  \/ list_agents("none")
  \/ cli_spawn(<<"w">>)
  \/ session_exit(session_prefix \o <<"w">>)
  \/ key_next
  \/ key_q
  \/ shutdown_kill_manager
  \/ process_end
  \/ launch

SpecShutdown ==
  Init /\ [][NextShutdown]_vars

\* C26: once the dashboard has quit and its process has ended, no manager
\* session is live.
C26_NoRootAfterShutdown ==
  dash_pc = "exited" => ~has_session(tmux, MANAGER_SESSION)


\* Refresh: both App instances refresh while prefixed sessions start, end,
\* and are attached to and detached from by a terminal
\* the calls that fail in a refresh: none, the new_session of
\* ensure_manager, the list_all_sessions of refresh
RefreshFailures ==
  {"none", "new_session", "list_all_sessions"}

NextRefresh ==
  \/ \E f \in RefreshFailures : dash_start(f)
  \/ \E f \in RefreshFailures : dash_tick(f)
  \/ \E f \in RefreshFailures : list_agents(f)
  \/ \E n \in NavNames : cli_spawn(n)
  \/ \E n \in NavNames : session_exit(session_prefix \o n)
  \/ \E n \in NavNames : session_attach(session_prefix \o n)
  \/ session_exit(MANAGER_SESSION)

SpecRefresh ==
  Init /\ [][NextRefresh]_vars

\* the live sessions under the prefix, without the manager session and the
\* dashboard's own session, in the order tmux lists them
PrefixedSessions(tm) ==
  LET Prefixed(n) == /\ starts_with(n, session_prefix)
                     /\ n # MANAGER_SESSION
                     /\ n # DASHBOARD_SESSION
  IN  SelectSeq(list_all_sessions(tm), Prefixed)

\* C27: a step in which an App instance refreshed with success leaves that
\* instance with an agent list that names exactly the live sessions under
\* the prefix other than the manager session and the dashboard's session,
\* and with the manager session, when live, in the manager record only.
C27_AgentListIsPrefixedSessions ==
  [][ em_log'.refreshed
        => LET a == app'[em_log'.app]
               names == [k \in 1..Len(a.agents) |-> a.agents[k].name]
           IN  /\ names = PrefixedSessions(tmux')
               /\ has_session(tmux', MANAGER_SESSION)
                    => /\ a.manager # None
                       /\ a.manager[1].name = MANAGER_SESSION
    ]_vars


(***************************************************************************)
(* The sandbox: spawning and killing with a provider                       *)
(***************************************************************************)
\* the command App::spawn_agent starts a session with
spawn_command(a, name) ==
  IF a.sandbox
    THEN wrap_command(TRUE, name, a.default_command)
    ELSE a.default_command

\* the end of App::spawn_agent, after its second refresh: the new agent is
\* selected when the list has it, then write_memory
spawn_select(W, i, name) ==
  LET agents == W.ap[i].agents
      found == {k \in 1..Len(agents) : agents[k].name = name}
      pos == CHOOSE k \in found : TRUE
  IN  write_memory(IF found = {} THEN W
                   ELSE [W EXCEPT !.ap[i].selected = pos - 1],
                   agents, W.ap[i].manager)

\* 'n': App::spawn_agent of the dashboard, an Err of which becomes the
\* status message; f: the call that fails in the first refresh, new_fails:
\* tmux new-session fails, g: the call that fails in the second refresh,
\* now: the clock
key_n(f, new_fails, g, now) ==
  /\ NormalMode
  /\ LiveCount(tmux) < MaxLive
  /\ \E R1 \in {refresh(World, "dash", f)} :
       IF ~R1.ok THEN Commit(set_status(R1.W, "dash", "Error"))
       ELSE
         \E name \in {generate_agent_name(R1.W.ap["dash"], session_prefix,
                                          now)} :
           IF new_fails \/ has_session(R1.W.tm, name)
             THEN Commit(set_status(R1.W, "dash", "Error"))
           ELSE
             \E R2 \in {refresh(
                          [R1.W EXCEPT
                             !.tm = MapInsert(@, name,
                                      [NewSession EXCEPT
                                         !.command =
                                           spawn_command(R1.W.ap["dash"],
                                                         name)]),
                             !.ap["dash"].status_message =
                               Some("Spawned agent")],
                          "dash", g)} :
               IF ~R2.ok THEN Commit(set_status(R2.W, "dash", "Error"))
               ELSE Commit(spawn_select(R2.W, "dash", name))
  /\ resp' = NoResponse
  /\ UNCHANGED <<session_prefix, adding, dash_pc, inject>>

\* omar starts with a configuration whose [sandbox] enabled is either value
InitSandbox ==
  /\ session_prefix = default_session_prefix
  /\ tmux = [n \in {DASHBOARD_SESSION} |->
               [NewSession EXCEPT !.attached = TRUE]]
  /\ parents = EmptyMap
  /\ worker_tasks = EmptyMap
  /\ projects_file = <<>>
  /\ memory_file = <<>>
  /\ \E enabled \in BOOLEAN :
       app = [i \in AppIds |-> [AppNew(<<>>) EXCEPT !.sandbox = enabled]]
  /\ dash_pc = "start"
  /\ inject = <<>>
  /\ adding = NoAdds
  /\ resp = NoResponse
  /\ em_log = NoLog

\* the command of a POST body, when it gives one
GivenCommand ==
  <<"bash">>

SandboxRequests ==
  [name : {Some(<<"w">>)}, task : {None}, role : {None},
   parent : {None}, command : {None, Some(GivenCommand)}]

\* Sandbox: sessions are started and killed through the API and through
\* the dashboard, with the sandbox enabled and with it disabled
NextSandbox ==
  \/ dash_start("none")
  \/ dash_tick("none")
  \/ \E new_fails \in BOOLEAN : key_n("none", new_fails, "none", 1700000000)
  \/ \E req \in SandboxRequests :
       spawn_agent(req, FALSE, FALSE, 1700000000)
  \/ \E id \in {<<"w">>, <<"1">>} : kill_agent(id, FALSE)
  \/ key_next
  \/ key_d
  \/ \E kill_fails \in BOOLEAN : confirm_yes(kill_fails, "none")

SpecSandbox ==
  InitSandbox /\ [][NextSandbox]_vars


\* the command lines a spawn may be given: the configured default and the
\* one of a POST body
PlainCommands ==
  {default_command, GivenCommand}

\* C28: a session under the prefix that a POST /api/agents or the 'n' key
\* of the dashboard starts runs, with the sandbox enabled, the provider's
\* wrapping of its command under the container name of the session, and
\* with the sandbox disabled the given or the default command itself; the
\* dashboard always starts the default command.
C28_SpawnedCommandIsWrapped ==
  [][ \A n \in DOMAIN tmux' \ DOMAIN tmux :
        Owned(n)
          => LET enabled == app["dash"].sandbox
                 given == IF resp' = Response("spawn", 200)
                            THEN PlainCommands
                            ELSE {default_command}
             IN  \E c \in given :
                   tmux'[n].command = wrap_command(enabled, n, c)
    ]_vars


\* C29: a kill that succeeds, answered 200 by DELETE /api/agents/:id or
\* confirmed with 'y' in the dashboard, removes a session under the prefix
\* and asks the sandbox provider, in the same step, to clean up after that
\* session.
C29_KillCleansUpSandbox ==
  [][ \A n \in DOMAIN tmux \ DOMAIN tmux' :
        Owned(n) => em_log'.cleanup = Some(n)
    ]_vars


\* the refresh of the step found no manager session and its new_session
\* failed, so that ensure_manager issued nothing
RootCreationFailed(l) ==
  /\ l.app # "none"
  /\ ~l.had_manager
  /\ ~l.ok
  /\ l.cmds = <<>>

\* C30: a refresh whose creation of the manager session fails leaves the
\* agent list, the manager record, the projects and the command tree of its
\* App as they were and creates no session; in the dashboard the step ends
\* with the status message "Error", should_quit false and the loop running,
\* and GET /api/agents answers 500.
C30_RootCreationFailureKeepsState ==
  [][ RootCreationFailed(em_log')
        => LET i == em_log'.app
           IN  /\ app'[i].agents = app[i].agents
               /\ app'[i].manager = app[i].manager
               /\ app'[i].projects = app[i].projects
               /\ app'[i].command_tree = app[i].command_tree
               /\ ~em_log'.refreshed
               /\ tmux' = tmux
               /\ i = "dash"
                    => /\ app'[i].status_message = Some("Error")
                       /\ ~app'[i].should_quit
                       /\ dash_pc' = "loop"
                       /\ resp' = NoResponse
               /\ i = "api" => resp' = Response("list", 500)
    ]_vars

\* the creation of the manager session failed in a refresh of an App whose
\* agent list and manager record no longer match the live sessions
C30_Witness ==
  /\ RootCreationFailed(em_log)
  /\ app[em_log.app].agents # <<>>
  /\ app[em_log.app].manager # None
  /\ AgentNames(app[em_log.app].agents) # {n \in DOMAIN tmux : Owned(n)}


(***************************************************************************)
(* The command line of a sandboxed session, as a POSIX shell reads it      *)
(***************************************************************************)
\* the words a POSIX shell splits a line into: a space ends a word, a
\* single quote opens a part that runs to the next single quote and is
\* taken as it is, a backslash outside quotes takes the next piece as it is
RECURSIVE posix_scan(_, _, _, _, _, _)
posix_scan(line, k, mode, in_word, word, words) ==
  IF k > Len(line)
    THEN IF in_word THEN Append(words, word) ELSE words
  ELSE
    LET c == line[k]
    IN  CASE mode = "quoted" /\ c = "'" ->
               posix_scan(line, k + 1, "plain", TRUE, word, words)
          [] mode = "quoted" /\ c # "'" ->
               posix_scan(line, k + 1, "quoted", TRUE, Append(word, c), words)
          [] mode = "escaped" ->
               posix_scan(line, k + 1, "plain", TRUE, Append(word, c), words)
          [] mode = "plain" /\ c = " " ->
               posix_scan(line, k + 1, "plain", FALSE, <<>>,
                          IF in_word THEN Append(words, word) ELSE words)
          [] mode = "plain" /\ c = "'" ->
               posix_scan(line, k + 1, "quoted", TRUE, word, words)
          [] mode = "plain" /\ c = "\\" ->
               posix_scan(line, k + 1, "escaped", TRUE, word, words)
          [] OTHER ->
               posix_scan(line, k + 1, "plain", TRUE, Append(word, c), words)

posix_split(line) ==
  posix_scan(line, 1, "plain", FALSE, <<>>, <<>>)

\* the pieces a configured command is made of, and the longest command
ArgChars ==
  {"a", " ", "'", "\\", "é"}

MaxArg ==
  3

RECURSIVE Strings(_, _)
Strings(chars, n) ==
  IF n = 0 THEN {<<>>}
  ELSE LET shorter == Strings(chars, n - 1)
       IN  shorter \cup {Append(s, c) : s \in shorter, c \in chars}

\* omar starts with the sandbox enabled and some default_command in its
\* configuration
InitEscape ==
  /\ session_prefix = default_session_prefix
  /\ tmux = [n \in {DASHBOARD_SESSION} |->
               [NewSession EXCEPT !.attached = TRUE]]
  /\ parents = EmptyMap
  /\ worker_tasks = EmptyMap
  /\ projects_file = <<>>
  /\ memory_file = <<>>
  /\ \E command \in Strings(ArgChars, MaxArg) :
       app = [i \in AppIds |->
                [AppNew(<<>>) EXCEPT !.sandbox = TRUE,
                                     !.default_command = command]]
  /\ dash_pc = "start"
  /\ inject = <<>>
  /\ adding = NoAdds
  /\ resp = NoResponse
  /\ em_log = NoLog

\* Escape: the dashboard spawns sandboxed sessions
NextEscape ==
  \/ dash_start("none")
  \/ key_n("none", FALSE, "none", 1700000000)

SpecEscape ==
  InitEscape /\ [][NextEscape]_vars

\* the characters [A-Za-z0-9_./:\-=]
InSafeSet(c) ==
  c \notin {" ", "'", "\\", "é"}

\* C31: the command line of every sandboxed session splits, as a POSIX
\* shell splits it, into docker and the arguments of the wrapper, one word
\* for each argument and equal to it; and an argument stands unquoted in the
\* line only if all its characters are in the safe set.
C31_EscapedArgumentsReparse ==
  \A n \in DOMAIN tmux :
    Owned(n)
      => LET args == <<<<"docker">>>>
                     \o docker_args(n, app["dash"].default_command)
         IN  /\ posix_split(tmux[n].command) = args
             /\ \A k \in 1..Len(args) :
                  shell_escape(args[k]) = args[k]
                    => \A j \in 1..Len(args[k]) : InSafeSet(args[k][j])


\* Parents: the API spawns workers and PMs with and without an explicit
\* parent, and kills them, while both Apps refresh
ParentNames ==
  {<<"w">>, <<"p", "m", "-", "a">>}

ParentRequests ==
  [name : {Some(n) : n \in ParentNames},
   task : {None},
   role : {None, Some("project-manager")},
   parent : {None} \cup {Some(n) : n \in ParentNames}]

NextParents ==
  \/ \E req \in ParentRequests : spawn_agent(req, FALSE, FALSE, NAME_LIMIT)
  \/ \E id \in ParentNames : kill_agent(id, FALSE)
  \/ list_agents("none")
  \/ dash_start("none")
  \/ dash_tick("none")

SpecParents ==
  Init /\ [][NextParents]_vars

\* C32: every key of the parent map is a session name other than the
\* manager's, and every value is the manager's session name or the full
\* name of a PM session: a name under the prefix whose short name starts
\* with pm-.
C32_ParentMapKeysAndValues ==
  \A child \in DOMAIN parents :
    /\ child # MANAGER_SESSION
    /\ \/ parents[child] = MANAGER_SESSION
       \/ /\ starts_with(parents[child], session_prefix)
          /\ is_pm_name(session_prefix, parents[child])

\* the sessions reached from n by one or more parent links, looking at most
\* `left` links far
RECURSIVE AncestorsOf(_, _, _)
AncestorsOf(pa, n, left) ==
  IF left = 0 \/ n \notin DOMAIN pa THEN {}
  ELSE {pa[n]} \cup AncestorsOf(pa, pa[n], left - 1)

\* C33: the parent map is a forest: no session is its own parent, and no
\* chain of parent links leads from a session back to it.
C33_ParentMapIsForest ==
  \A child \in DOMAIN parents :
    child \notin AncestorsOf(parents, child, Cardinality(DOMAIN parents))


\* C34: a refresh that finds the manager session live and succeeds ends
\* with a write of the memory snapshot: after the step the memory file is
\* the snapshot of what the refresh found, and the worker tasks and the
\* parent map hold no entry of a session outside the refreshed agent list.
C34_RefreshEndsWithSnapshot ==
  [][ (em_log'.refreshed /\ em_log'.had_manager)
        => LET a == app'[em_log'.app]
           IN  /\ memory_file' = snapshot(a.manager)
               /\ DOMAIN worker_tasks' \subseteq AgentNames(a.agents)
               /\ DOMAIN parents' \subseteq AgentNames(a.agents)
    ]_vars


OrphanAgents ==
  {k \in 1..Len(Agents) :
     /\ ~is_pm_name(session_prefix, Agents[k].name)
     /\ ~(/\ Agents[k].name \in DOMAIN app["dash"].agent_parents
          /\ \E j \in 1..Len(Agents) :
               /\ is_pm_name(session_prefix, Agents[j].name)
               /\ Agents[j].name = app["dash"].agent_parents[Agents[k].name])}

KillTarget(a) ==
  IF selected_agent(a) = None THEN None
  ELSE Some(selected_agent(a)[1].name)

\* C37: while the confirmation dialog is open the session that 'y' will kill
\* stays the one that was selected when 'd' opened the dialog, whatever
\* refreshes of the tick come in between; and the step that closes the
\* dialog ends no session other than that one.
C37_ConfirmKillsSelected ==
  [][ /\ (ConfirmMode /\ ConfirmMode' /\ KillTarget(app'["dash"]) # None)
           => KillTarget(app'["dash"]) = KillTarget(app["dash"])
      /\ (ConfirmMode /\ ~ConfirmMode')
           => \A n \in DOMAIN tmux \ DOMAIN tmux' :
                KillTarget(app["dash"]) = Some(n)
    ]_vars


\* C38: a POST /api/agents without a name is never answered 409: the name
\* the handler generates is not the name of a live session.
C38_UnnamedSpawnNeverConflicts ==
  [][ resp'.op = "spawn"
        => \A req \in NameRequests, new_fails \in BOOLEAN, now \in Clocks :
             spawn_agent(req, new_fails, FALSE, now) => resp'.status # 409
    ]_vars


\* C39: every live session under the configured prefix is the session its
\* reported id resolves to: resolve_session_name(p, display_name(p, n)) = n.
C39_ReportedIdResolvesBack ==
  \A n \in DOMAIN tmux :
    (starts_with(n, session_prefix) /\ n # DASHBOARD_SESSION
       /\ n # MANAGER_SESSION)
      => resolve_session_name(session_prefix,
                              display_name(session_prefix, n)) = n


(***************************************************************************)
(* api/handlers.rs: GET /api/agents/:id after POST /api/agents             *)
(***************************************************************************)
\* Get: the API spawns named and unnamed agents, kills them, and answers
\* GET /api/agents and GET /api/agents/:id
GetNames ==
  {<<"w">>, <<"v">>}

GetIds ==
  GetNames \cup {<<"1">>, MANAGER_SESSION}

GetRequests ==
  [name : {None} \cup {Some(n) : n \in GetNames}, task : {None},
   role : {None}, parent : {None}]

NextGet ==
  \/ \E req \in GetRequests : spawn_agent(req, FALSE, FALSE, NAME_LIMIT)
  \/ \E id \in GetIds : get_agent(id)
  \/ \E id \in GetIds : kill_agent(id, FALSE)
  \/ list_agents("none")

SpecGet ==
  Init /\ [][NextGet]_vars

\* a live session that a POST /api/agents created: here no other operation
\* creates a session but the manager's
Spawned(n) ==
  /\ has_session(tmux, n)
  /\ n \notin {MANAGER_SESSION, DASHBOARD_SESSION, ForeignSession}

\* C40: a GET /api/agents/:id with the id a successful POST /api/agents
\* reported, made while the session is live, is not answered 404.
C40_SpawnedAgentIsFound ==
  [][ \A id \in GetIds :
        (get_agent(id)
           /\ Spawned(resolve_session_name(session_prefix, id))
           /\ display_name(session_prefix,
                           resolve_session_name(session_prefix, id)) = id)
          => resp'.status # 404
    ]_vars

====
